---- MODULE Spec2Model ----
(***************************************************************************)
(* Model of the veiss-com/sw-tools Service Worker (src/src/sw.js): the     *)
(* fetch-interception policy, the Cache Storage it reads and writes, the   *)
(* configuration merge, cache trimming and the message handlers.           *)
(***************************************************************************)
EXTENDS Integers, Sequences, FiniteSets, TLC

(***************************************************************************)
(* Bounds of the model.                                                    *)
(***************************************************************************)
\* total number of intercepted fetch events in one behaviour
MaxFetches == 1
\* total number of messages received from the page in one behaviour
MaxMessages == 2
\* total number of events (fetch events and messages) in one behaviour
MaxEvents == 2
\* largest value of the clock (Date.now())
MaxClock == 1
\* number of puts performed before the trim in the trim-only specification
MaxTrimPuts == 3

(***************************************************************************)
(* JavaScript values: the configuration object is a JS object, and the     *)
(* code tests its fields for truthiness and for being plain objects.       *)
(***************************************************************************)
Undef == [t |-> "undefined"]
Bool(b) == [t |-> "boolean", b |-> b]
Num(n) == [t |-> "number", n |-> n]
Str(s) == [t |-> "string", s |-> s]
Arr(a) == [t |-> "array", a |-> a]
Obj(f) == [t |-> "object", o |-> f]
EmptyObj == Obj(<<>>)

\* JS truthiness (!x, x && ..., if (x))
Truthy(v) ==
    CASE v.t = "undefined" -> FALSE
      [] v.t = "boolean" -> v.b
      [] v.t = "number" -> v.n # 0
      [] v.t = "string" -> v.s # ""
      [] OTHER -> TRUE

\* property read v[k]; a missing property reads as undefined
Get(v, k) == IF v.t = "object" /\ k \in DOMAIN v.o THEN v.o[k] ELSE Undef

isObject(item) == Truthy(item) /\ item.t = "object"

\* mergeDeep that appends an array to the array of the target
RECURSIVE mergeDeep_Concat(_, _)
mergeDeep_Concat(target, source) ==
    IF isObject(target) /\ isObject(source)
    THEN Obj([key \in (DOMAIN target.o) \cup (DOMAIN source.o) |->
            IF key \notin DOMAIN source.o
            THEN target.o[key]
            ELSE IF isObject(source.o[key])
                 THEN LET old == Get(target, key)
                          base == IF ~Truthy(old) THEN EmptyObj ELSE old
                      IN mergeDeep_Concat(base, source.o[key])
                 ELSE IF source.o[key].t = "array" /\ Get(target, key).t = "array"
                 THEN Arr(Get(target, key).a \o source.o[key].a)
                 ELSE source.o[key]])
    ELSE target

RECURSIVE mergeDeep(_, _)
mergeDeep(target, source) ==
    IF isObject(target) /\ isObject(source)
    THEN Obj([key \in (DOMAIN target.o) \cup (DOMAIN source.o) |->
            IF key \notin DOMAIN source.o
            THEN target.o[key]
            ELSE IF isObject(source.o[key])
                 THEN LET old == Get(target, key)
                          base == IF ~Truthy(old) THEN EmptyObj ELSE old
                      IN mergeDeep(base, source.o[key])
                 ELSE source.o[key]])
    ELSE target

\* the value of   var config = {...}   when the worker script is evaluated
DefaultMaxTime == 86400000
DefaultConfig ==
    Obj([cache |-> Obj([enabled |-> Bool(TRUE)]),
         prefetch |-> Obj([enabled |-> Bool(TRUE)]),
         defer |-> Obj([images |-> Obj([color |-> Str("#D8D8D8")]),
                        youtube |-> Obj([enabled |-> Bool(TRUE)])]),
         analytics |-> Obj([enabled |-> Bool(TRUE),
                            maxTime |-> Num(DefaultMaxTime)])])

\* globalConfig.version
Version == "v1.0.0"

(***************************************************************************)
(* Strings.  A string the code searches (indexOf, includes, a regular      *)
(* expression) is the sequence of its pieces; searching is done on pieces. *)
(***************************************************************************)
RECURSIVE IndexFrom(_, _, _)
\* least i >= from with pat occurring in text at i, 0 when there is none
IndexFrom(text, pat, from) ==
    IF from + Len(pat) - 1 > Len(text) THEN 0
    ELSE IF \A j \in 1..Len(pat) : text[from + j - 1] = pat[j] THEN from
    ELSE IndexFrom(text, pat, from + 1)

\* String.prototype.indexOf, 1-based, 0 for "not found" (-1 in JS)
IndexOf(text, pat) == IndexFrom(text, pat, 1)

\* String.prototype.includes
Includes(text, pat) == IndexOf(text, pat) # 0

Tok(s) ==
    CASE s = "https://site.test" -> <<"https://", "site.test">>
      [] s = "https://cdn.test" -> <<"https://", "cdn.test">>
      [] s = "https://www.google-analytics.com" -> <<"https://", "www.google-analytics.com">>
      [] s = "/page" -> <<"/", "page">>
      [] s = "/offline" -> <<"/", "offline">>
      [] s = "/admin/form" -> <<"/", "admin", "/", "form">>
      [] s = "/img/a.png" -> <<"/", "img", "/", "a.png">>
      [] s = "/sw.min.js" -> <<"/", "sw.min.js">>
      [] s = "/collect" -> <<"/", "collect">>
      [] s = "/img/" -> <<"/", "img", "/">>
      [] s = "collect" -> <<"collect">>
      [] s = "text/html,*/*" -> <<"text/html", ",", "*/*">>
      [] s = "image/png,*/*" -> <<"image", "/png", ",", "*/*">>
      [] s = "text/html,image/png" -> <<"text/html", ",", "image", "/png">>
      [] s = "*/*" -> <<"*/*">>
      [] s = "text/html" -> <<"text/html">>
      [] s = "image" -> <<"image">>
      [] OTHER -> <<s>>

(***************************************************************************)
(* Requests.                                                               *)
(***************************************************************************)
SelfOrigin == "https://site.test"
AnalyticsOrigin == "https://www.google-analytics.com"

Url(origin, pathname) == [origin |-> origin, pathname |-> pathname]

\* new URL(u).hostname
Hostname(url) ==
    CASE url.origin = "https://site.test" -> "site.test"
      [] url.origin = "https://cdn.test" -> "cdn.test"
      [] url.origin = "https://www.google-analytics.com" -> "www.google-analytics.com"
      [] url.origin = "https://ssl.google-analytics.com" -> "ssl.google-analytics.com"

\* request.url as a string
Href(url) == Tok(url.origin) \o Tok(url.pathname)

Req(method, url, accept, saveData) ==
    [method |-> method, url |-> url, accept |-> accept, saveData |-> saveData]

PageUrl == Url(SelfOrigin, "/page")
OfflineUrl == Url(SelfOrigin, "/offline")
AdminUrl == Url(SelfOrigin, "/admin/form")
ImgUrl == Url(SelfOrigin, "/img/a.png")
SwUrl == Url(SelfOrigin, "/sw.min.js")
CdnUrl == Url("https://cdn.test", "/img/a.png")
BeaconUrl == Url(AnalyticsOrigin, "/collect")

\* the fetch events the page can cause
Requests ==
    { Req("GET", PageUrl, "text/html,*/*", FALSE),
      Req("GET", AdminUrl, "text/html,*/*", FALSE),
      Req("POST", PageUrl, "text/html,*/*", FALSE),
      Req("GET", ImgUrl, "image/png,*/*", FALSE),
      Req("GET", ImgUrl, "image/png,*/*", TRUE),
      Req("GET", SwUrl, "*/*", FALSE),
      Req("GET", CdnUrl, "image/png,*/*", FALSE),
      Req("GET", BeaconUrl, "*/*", FALSE),
      Req("GET", BeaconUrl, "*/*", TRUE) }

(***************************************************************************)
(* Content rewriting (deferImages, deferYoutubeVideos).  An HTML body is   *)
(* the sequence of its pieces; the quote, the space, the attribute names   *)
(* and the tag delimiters the code searches for are pieces of their own.   *)
(***************************************************************************)
Max(S) == CHOOSE x \in S : \A y \in S : y <= x

\* text.substr(from) with a 1-based from
Substr(text, from) == SubSeq(text, from, Len(text))

\* String.prototype.replace(pattern, replacement) with a string pattern:
\* the first occurrence only
ReplaceFirst(text, pat, rep) ==
    LET i == IndexOf(text, pat)
    IN IF i = 0 THEN text
       ELSE SubSeq(text, 1, i - 1) \o rep \o Substr(text, i + Len(pat))

getTextPart(text, start, end) ==
    LET i == IndexOf(text, start)
        t1 == Substr(text, IF i = 0 THEN Len(text) ELSE i)
        j == IndexOf(t1, end)
    IN SubSeq(t1, 1, IF j = 0 THEN 0 ELSE j + Len(end) - 1)

\* \d+
Digits == {"10", "20", "0"}

\* image.match(/name="(\d+)"/): the captured digits, or <<>> for no match
RECURSIVE MatchDim(_, _, _)
MatchDim(image, name, from) ==
    LET i == IndexFrom(image, <<name, "=", "\"">>, from)
    IN IF i = 0 THEN <<>>
       ELSE IF i + 4 <= Len(image) /\ image[i + 3] \in Digits /\ image[i + 4] = "\""
            THEN <<image[i + 3]>>
            ELSE MatchDim(image, name, i + 1)

newBase64Image(width, height, color) ==
    <<"data:image/svg+xml;base64,", "svg(", width, ",", height, ",", color, ")">>

\* positions of the pieces of text in from..to up to the first line break
LineEnd(text, from) ==
    LET nl == IndexFrom(text, <<"\n">>, from)
    IN IF nl = 0 THEN Len(text) ELSE nl - 1

\* image.replace(/src="(.*)(\?[0-9]+)*"/gi, 'src="' + placeholder + '" data-defer-src="$1"')
RECURSIVE ReplaceSrc(_, _, _)
ReplaceSrc(image, placeholder, from) ==
    LET s1 == IndexFrom(image, <<"src", "=", "\"">>, from)
        s2 == IndexFrom(image, <<"SRC", "=", "\"">>, from)
        s == IF s1 = 0 THEN s2 ELSE IF s2 = 0 THEN s1 ELSE IF s1 < s2 THEN s1 ELSE s2
    IN IF s = 0 THEN Substr(image, from)
       ELSE LET quotes == {e \in (s + 3)..LineEnd(image, s + 3) : image[e] = "\""}
            IN IF quotes = {}
               THEN SubSeq(image, from, s) \o ReplaceSrc(image, placeholder, s + 1)
               ELSE LET e == Max(quotes)
                    IN SubSeq(image, from, s - 1)
                       \o <<"src", "=", "\"">> \o placeholder
                       \o <<"\"", " ", "data-defer", "-", "src", "=", "\"">>
                       \o SubSeq(image, s + 3, e - 1) \o <<"\"">>
                       \o ReplaceSrc(image, placeholder, e + 1)

\* setImage that asks for a width or a height only
setImage_EitherSize(image, color) ==
    LET width == MatchDim(image, "width", 1)
        height == MatchDim(image, "height", 1)
    IN IF width = <<>> /\ height = <<>>
       THEN image
       ELSE ReplaceSrc(image, newBase64Image(IF width = <<>> THEN "0" ELSE width[1],
                                             IF height = <<>> THEN "0" ELSE height[1],
                                             color), 1)

setImage(image, color) ==
    LET width == MatchDim(image, "width", 1)
        height == MatchDim(image, "height", 1)
    IN IF width = <<>> \/ height = <<>>
       THEN image
       ELSE ReplaceSrc(image, newBase64Image(width[1], height[1], color), 1)

RECURSIVE changeImagesLoop(_, _, _)
changeImagesLoop(html, cloned, color) ==
    IF IndexOf(cloned, <<"<img">>) = 0 THEN html
    ELSE LET oldImage == getTextPart(cloned, <<"<img">>, <<">">>)
             html2 == IF Includes(oldImage, <<"data-defer">>)
                      THEN ReplaceFirst(html, oldImage, setImage(oldImage, color))
                      ELSE html
         IN changeImagesLoop(html2, Substr(cloned, IndexOf(cloned, oldImage) + 1), color)

changeImages(html, color) == changeImagesLoop(html, html, color)

\* [a-z0-9\-]+
YoutubeIds == {"dqw4", "abc-1"}
YoutubeEmbed == "https://www.youtube.com/embed/"

NoBreak(text, from, to) == \A i \in from..to : text[i] # "\n"

\* the replacement of deferYoutubeVideos with $1, $2, $3
YoutubeFrame(g1, id, g3) ==
    <<"<div style=ratio>", "<iframe", " ", "style=fill", " ">> \o g1
    \o <<" ", "src", "=", "\"", YoutubeEmbed, id, "\"", " ", "srcdoc", "=", "\"",
         "<style>", "<a href=", YoutubeEmbed, id, "?autoplay=1", ">",
         "<img", " ", "src", "=", "https://img.youtube.com/vi/", id, "/hqdefault.jpg", ">",
         "<span>play</span>", "</a>", "\"", " ">> \o g3
    \o <<">", "</iframe>", "</div>">>

\* body.replace(/<iframe (.*) src="https:\/\/www.youtube.com\/embed\/([a-z0-9\-]+)" (.*)><\/iframe>/gi, ...)
RECURSIVE ReplaceYoutube(_, _)
ReplaceYoutube(body, from) ==
    LET a == IndexFrom(body, <<"<iframe", " ">>, from)
    IN IF a = 0 THEN Substr(body, from)
       ELSE LET ends(b) == {c \in (b + 8)..(Len(body) - 1) :
                               /\ body[c] = ">" /\ body[c + 1] = "</iframe>"
                               /\ NoBreak(body, b + 8, c - 1)}
                srcs == {b \in (a + 2)..(Len(body) - 7) :
                            /\ SubSeq(body, b, b + 4) = <<" ", "src", "=", "\"", YoutubeEmbed>>
                            /\ body[b + 5] \in YoutubeIds
                            /\ body[b + 6] = "\"" /\ body[b + 7] = " "
                            /\ NoBreak(body, a + 2, b - 1)
                            /\ ends(b) # {}}
            IN IF srcs = {}
               THEN SubSeq(body, from, a) \o ReplaceYoutube(body, a + 1)
               ELSE LET b == Max(srcs)
                        c == Max(ends(b))
                    IN SubSeq(body, from, a - 1)
                       \o YoutubeFrame(SubSeq(body, a + 2, b - 1), body[b + 5],
                                       SubSeq(body, b + 8, c - 1))
                       \o ReplaceYoutube(body, c + 2)

\* the network bodies of the model
HtmlPlain == <<"<p>", "hello", "</p>">>
HtmlImage ==
    <<"<img", " ", "data-defer", " ", "src", "=", "\"", "a.png", "\"", " ",
      "width", "=", "\"", "10", "\"", " ", "height", "=", "\"", "20", "\"", ">">>
HtmlVideo ==
    <<"<iframe", " ", "width", "=", "\"", "10", "\"", " ", "src", "=", "\"",
      YoutubeEmbed, "dqw4", "\"", " ", "allowfullscreen", ">", "</iframe>">>
HtmlError == <<"<h1>", "Not Found", "</h1>">>
PngBytes == <<"png-bytes">>
OtherBytes == <<"bytes">>

(***************************************************************************)
(* Responses and the network.                                              *)
(***************************************************************************)
\* a Response; net is the status of the network response it derives from
\* (0 when it does not come from the network)
Response(status, body, net) == [status |-> status, body |-> body, net |-> net]

\* the JS value undefined where a Response is expected
Undefined == [undefined |-> TRUE]

\* the event was left to the browser (respondWith was not called)
NotHandled == [notHandled |-> TRUE]

\* the promise given to respondWith was rejected
Rejected == [rejected |-> TRUE]

\* Response.ok
Ok(response) == response.status >= 200 /\ response.status <= 299

HtmlPaths == {"/page", "/offline", "/admin/form"}

\* what the network can answer for a URL when the fetch resolves
NetResponses(url) ==
    IF url.pathname \in HtmlPaths
    THEN {Response(200, HtmlPlain \o HtmlImage \o HtmlVideo, 200), Response(404, HtmlError, 404)}
    ELSE IF url.pathname = "/img/a.png"
    THEN {Response(200, PngBytes, 200), Response(404, HtmlError, 404)}
    ELSE {Response(200, OtherBytes, 200), Response(500, HtmlError, 500)}

(***************************************************************************)
(* Reading the configuration.                                              *)
(***************************************************************************)
CfgCache(cfg) == Get(cfg, "cache")
CacheEnabled(cfg) == Truthy(Get(CfgCache(cfg), "enabled"))
MaxItems(cfg) == Get(CfgCache(cfg), "maxItems")
PrefetchEnabled(cfg) == Truthy(Get(Get(cfg, "prefetch"), "enabled"))
PrefetchItems(cfg) == Get(Get(cfg, "prefetch"), "items")
AnalyticsEnabled(cfg) == Truthy(Get(Get(cfg, "analytics"), "enabled"))
AnalyticsMaxTime(cfg) == Get(Get(cfg, "analytics"), "maxTime")
YoutubeEnabled(cfg) == Truthy(Get(Get(Get(cfg, "defer"), "youtube"), "enabled"))
ImageColor(cfg) == Get(Get(Get(cfg, "defer"), "images"), "color").s


\* keys.length < config.cache.maxItems
LengthWithin_Strict(n, limit) == limit.t = "number" /\ n < limit.n

\* keys.length <= config.cache.maxItems   (a comparison with undefined is false)
LengthWithin(n, limit) == limit.t = "number" /\ n <= limit.n

\* a regular expression of cache.noCachePatterns: pieces, anchored or not
Regex(start, pieces, end) == [start |-> start, pieces |-> pieces, end |-> end]

\* RegExp.prototype.test
RegexTest(re, text) ==
    \E i \in 1..(Len(text) + 1) :
        /\ i + Len(re.pieces) - 1 <= Len(text)
        /\ \A j \in 1..Len(re.pieces) : text[i + j - 1] = re.pieces[j]
        /\ re.start => i = 1
        /\ re.end => i + Len(re.pieces) - 1 = Len(text)

(***************************************************************************)
(* onFetch: the classification of an intercepted request.                  *)
(***************************************************************************)
shouldSaveData(request, cfg) ==
    IF ~Truthy(Get(cfg, "saveDataItems")) THEN FALSE
    ELSE IF ~request.saveData THEN FALSE
    ELSE \E i \in DOMAIN Get(cfg, "saveDataItems").a :
            Includes(Href(request.url), Tok(Get(cfg, "saveDataItems").a[i]))


\* the criteria without isGETRequest
HandleCriteria_NoMethod(request, cfg) ==
    LET pathname == request.url.pathname
        patterns == Get(CfgCache(cfg), "noCachePatterns")
        items == Get(CfgCache(cfg), "noCacheItems")
    IN [isSWjs |-> "sw.min.js" # pathname,
        isFromMyOrigin |-> request.url.origin = SelfOrigin]
       @@ (IF Truthy(patterns)
           THEN [matchesPathPattern |->
                    ~ \E i \in DOMAIN patterns.a : RegexTest(patterns.a[i], Tok(pathname))]
           ELSE <<>>)
       @@ (IF Truthy(items)
           THEN [isNoCacheItem |-> ~ \E i \in DOMAIN items.a : items.a[i] = pathname]
           ELSE <<>>)

\* the criteria object of shouldHandleFetch
HandleCriteria(request, cfg) ==
    LET pathname == request.url.pathname
        patterns == Get(CfgCache(cfg), "noCachePatterns")
        items == Get(CfgCache(cfg), "noCacheItems")
    IN [isSWjs |-> "sw.min.js" # pathname,
        isGETRequest |-> "GET" = request.method,
        isFromMyOrigin |-> request.url.origin = SelfOrigin]
       @@ (IF Truthy(patterns)
           THEN [matchesPathPattern |->
                    ~ \E i \in DOMAIN patterns.a : RegexTest(patterns.a[i], Tok(pathname))]
           ELSE <<>>)
       @@ (IF Truthy(items)
           THEN [isNoCacheItem |-> ~ \E i \in DOMAIN items.a : items.a[i] = pathname]
           ELSE <<>>)

shouldHandleFetch(request, cfg) ==
    LET criteria == HandleCriteria(request, cfg)
        failingCriteria == {criteriaKey \in DOMAIN criteria : ~criteria[criteriaKey]}
    IN failingCriteria = {}

\* the resource type doFetch derives from the Accept header
ResourceType(request) ==
    IF Includes(Tok(request.accept), Tok("text/html")) THEN "content"
    ELSE IF Includes(Tok(request.accept), Tok("image")) THEN "image"
    ELSE "static"

cacheName(key) == <<Version, ":sw-cache::", key>>

\* doFetch: the flow whose promise is given to respondWith
doFetch(request) ==
    IF ResourceType(request) = "content" THEN <<"ContentFlow">> ELSE <<"CacheFirstFlow">>

\* analyticsFetch: respondWith is called for a beacon only
analyticsFetch(request) ==
    IF /\ Hostname(request.url) \in {"www.google-analytics.com", "ssl.google-analytics.com"}
       /\ "/collect" = request.url.pathname
    THEN <<"BeaconFlow">>
    ELSE <<>>


\* onFetch without the return after the 408 response
onFetchCalls_NoReturn(request, cfg) ==
    (IF shouldSaveData(request, cfg) THEN <<"Suppressed408">> ELSE <<>>)
    \o (IF shouldHandleFetch(request, cfg) THEN doFetch(request)
        ELSE IF AnalyticsEnabled(cfg) THEN analyticsFetch(request)
        ELSE <<>>)

\* onFetch testing shouldHandleFetch before shouldSaveData
onFetchCalls_HandleFirst(request, cfg) ==
    IF shouldHandleFetch(request, cfg) THEN doFetch(request)
    ELSE IF shouldSaveData(request, cfg) THEN <<"Suppressed408">>
    ELSE IF AnalyticsEnabled(cfg) THEN analyticsFetch(request)
    ELSE <<>>

\* the body of onFetch: the respondWith calls it makes, in order
onFetchCalls(request, cfg) ==
    IF shouldSaveData(request, cfg) THEN <<"Suppressed408">>
    ELSE IF shouldHandleFetch(request, cfg) THEN doFetch(request)
    ELSE IF AnalyticsEnabled(cfg) THEN analyticsFetch(request)
    ELSE <<>>

(***************************************************************************)
(* Cache Storage: the caches in creation order, each the sequence of its   *)
(* entries in insertion order (the order of cache.keys()).                 *)
(***************************************************************************)
CacheIndex(cs, name) ==
    IF \E i \in DOMAIN cs : cs[i].name = name
    THEN CHOOSE i \in DOMAIN cs : cs[i].name = name
    ELSE 0

\* caches.open(name): creates the cache when it does not exist
OpenCache(cs, name) ==
    IF CacheIndex(cs, name) # 0 THEN cs
    ELSE Append(cs, [name |-> name, entries |-> <<>>])

Without(entries, key) == SelectSeq(entries, LAMBDA e : e.key # key)

\* cache.put(key, response): replaces the entry of the key, appending the new one
PutEntry(cs, name, key, response) ==
    LET i == CacheIndex(cs, name)
    IN IF i = 0 THEN cs
       ELSE [cs EXCEPT ![i].entries =
                Append(Without(@, key), [key |-> key, resp |-> response])]

\* cache.delete(key)
DeleteEntry(cs, name, key) ==
    LET i == CacheIndex(cs, name)
    IN IF i = 0 THEN cs ELSE [cs EXCEPT ![i].entries = Without(@, key)]

\* cache.keys()
CacheKeys(cs, name) ==
    LET i == CacheIndex(cs, name)
    IN IF i = 0 THEN <<>> ELSE [j \in DOMAIN cs[i].entries |-> cs[i].entries[j].key]

\* caches.match(request): the first cache, in creation order, that has the URL
CachesMatch(cs, url) ==
    LET hits == {i \in DOMAIN cs : \E j \in DOMAIN cs[i].entries : cs[i].entries[j].key = url}
    IN IF hits = {} THEN Undefined
       ELSE LET i == CHOOSE h \in hits : \A g \in hits : h <= g
                j == CHOOSE k \in DOMAIN cs[i].entries : cs[i].entries[k].key = url
            IN cs[i].entries[j].resp

NoUrl == Url("", "")

\* addToCache: the cache write it dispatches (caches.open, then cache.put)
addToCache(cacheKey, url, response, cfg, by) ==
    IF Ok(response) /\ CacheEnabled(cfg)
    THEN {[by |-> by, name |-> cacheKey, key |-> url, resp |-> response]}
    ELSE {}


\* offlineResponse without the 'content' case
offlineResponse_NoPage(resourceType, cfg) ==
    LET offline == Get(cfg, "offline")
    IN IF ~Truthy(offline) THEN [kind |-> "value", resp |-> Undefined]
       ELSE IF resourceType = "image" /\ Truthy(Get(offline, "image"))
       THEN [kind |-> "value", resp |-> Response(200, <<Get(offline, "image").s>>, 0)]
       ELSE [kind |-> "value", resp |-> Undefined]

\* offlineResponse giving the offline image whatever the resource type
offlineResponse_AnyType(resourceType, cfg) ==
    LET offline == Get(cfg, "offline")
    IN IF ~Truthy(offline) THEN [kind |-> "value", resp |-> Undefined]
       ELSE IF Truthy(Get(offline, "image"))
       THEN [kind |-> "value", resp |-> Response(200, <<Get(offline, "image").s>>, 0)]
       ELSE IF resourceType = "content" /\ Truthy(Get(offline, "page"))
       THEN [kind |-> "match", url |-> Url(SelfOrigin, Get(offline, "page").s)]
       ELSE [kind |-> "value", resp |-> Undefined]

\* offlineResponse: a value, or the promise of caches.match(config.offline.page)
offlineResponse(resourceType, cfg) ==
    LET offline == Get(cfg, "offline")
    IN IF ~Truthy(offline) THEN [kind |-> "value", resp |-> Undefined]
       ELSE IF resourceType = "image" /\ Truthy(Get(offline, "image"))
       THEN [kind |-> "value", resp |-> Response(200, <<Get(offline, "image").s>>, 0)]
       ELSE IF resourceType = "content" /\ Truthy(Get(offline, "page"))
       THEN [kind |-> "match", url |-> Url(SelfOrigin, Get(offline, "page").s)]
       ELSE [kind |-> "value", resp |-> Undefined]

\* store on an object store that has no key path
store_NoKeyPath(records, url, timestamp) ==
    records \cup {[url |-> url, timestamp |-> timestamp]}

\* store: IDBObjectStore.add of {url, timestamp}; the object store is created
\* with { keyPath: 'url' }, so add fails on a url that is already stored
store(records, url, timestamp) ==
    IF \E r \in records : r.url = url THEN records
    ELSE records \cup {[url |-> url, timestamp |-> timestamp]}

\* IDBObjectStore.delete(url)
Remove(records, url) == {r \in records : r.url # url}

\* trimCaches: the caches.keys() it dispatches
trimCaches(cfg, id) ==
    IF ~CacheEnabled(cfg) \/ ~Truthy(MaxItems(cfg)) THEN {}
    ELSE {[id |-> id, stage |-> "cacheKeys", name |-> <<>>, key |-> NoUrl, deleted |-> 0]}

\* prefetch without the test of config.prefetch.enabled
prefetch_Always(urls, cfg, id) ==
    {[id |-> id, url |-> Url(SelfOrigin, urls[i])] : i \in DOMAIN urls}

\* prefetch: the fetches it dispatches
prefetch(urls, cfg, id) ==
    IF ~PrefetchEnabled(cfg) THEN {}
    ELSE {[id |-> id, url |-> Url(SelfOrigin, urls[i])] : i \in DOMAIN urls}

(***************************************************************************)
(* The configurations and prefetch lists the page sends.                   *)
(***************************************************************************)
Overrides ==
    { Obj([cache |-> Obj([maxItems |-> Num(1)]),
           prefetch |-> Obj([items |-> Arr(<<"/offline">>)])]),
      Obj([cache |-> Obj([enabled |-> Bool(FALSE)])]),
      Obj([cache |-> Obj([noCacheItems |-> Arr(<<"/page">>),
                          noCachePatterns |-> Arr(<<Regex(TRUE, Tok("/admin/form"), FALSE)>>)]),
           saveDataItems |-> Arr(<<"/img/", "collect">>)]),
      Obj([offline |-> Obj([page |-> Str("/offline"), image |-> Str("<svg offline>")]),
           prefetch |-> Obj([items |-> Arr(<<"/offline">>)]),
           defer |-> Obj([youtube |-> Obj([enabled |-> Bool(FALSE)])])]),
      Obj([prefetch |-> Obj([enabled |-> Bool(FALSE)]),
           analytics |-> Obj([enabled |-> Bool(FALSE), maxTime |-> Num(0)])]) }

PrefetchLists == { <<"/page">>, <<"/img/a.png">> }

(***************************************************************************)
(* State.                                                                  *)
(***************************************************************************)
VARIABLES
    config,      \* var config
    caches,      \* the Cache Storage of the origin
    reqs,        \* the fetch events received, each with the state of its promise chain
    puts,        \* cache writes dispatched by addToCache and not yet done
    trims,       \* steps of trimCaches / trimCache in flight (deleted counts the
                 \* deletions a trimCache has made so far)
    prefetches,  \* fetches of prefetch() in flight
    database,    \* globalConfig.analytics.database is set
    dbOpening,   \* indexedDB.open requests in flight
    idb,         \* the records {url, timestamp} of the object store
    getAlls,     \* getAll() requests of retryAnalyticsRequests in flight
    replays,     \* replay fetches of retryAnalyticsRequests in flight, and the
                 \* outcome of the one that settled last
    now,         \* Date.now()
    broadcasts,  \* clients.matchAll() of sendMessage in flight, each with the
                 \* setConfig message (its number and config) that caused it
    posted,      \* isConfigured messages posted to the pages
    nMsg,        \* messages received
    thrown,      \* messages whose handler threw
    activation   \* the activate event: its stage, the cache names caches.keys()
                 \* found and the caches.delete() calls still in flight

vars == <<config, caches, reqs, puts, trims, prefetches, database, dbOpening, idb,
          getAlls, replays, now, broadcasts, posted, nMsg, thrown, activation>>

cacheVars == <<caches, puts, trims>>
dbVars == <<database, dbOpening, idb, getAlls, replays>>
msgVars == <<broadcasts, posted, nMsg, thrown, prefetches>>

\* one more message can be received without reaching MaxMessages: the
\* specifications of one aspect of the worker stop one message short of the
\* bound, and leave commands that overlap to the specifications written for them
OneAtATime == nMsg + 1 < MaxMessages

\* the worker is active: the activate event has been handled
Activated == [stage |-> "activated", found |-> <<>>, doomed |-> {}]

Init ==
    /\ config = DefaultConfig
    /\ caches = <<>>
    /\ reqs = <<>>
    /\ puts = {}
    /\ trims = {}
    /\ prefetches = {}
    /\ database = FALSE
    /\ dbOpening = 0
    /\ idb = {}
    /\ getAlls = {}
    /\ replays = {}
    /\ now = 0
    /\ broadcasts = {}
    /\ posted = {}
    /\ nMsg = 0
    /\ thrown = {}
    /\ activation = Activated

(***************************************************************************)
(* The fetch event.                                                        *)
(***************************************************************************)
\* the fetch event object: the request, the respondWith calls made for it,
\* the position in the promise chain given to respondWith and its result;
\* held is history that no step reads: what the Cache Storage held for the
\* URL when the event arrived
FetchEvent(request, calls, pc, resp, did) ==
    [req |-> request, calls |-> calls,
     flow |-> IF calls = <<>> THEN "PassThrough" ELSE calls[1],
     pc |-> pc, resp |-> resp, raw |-> Undefined, did |-> did, arg |-> NoUrl,
     held |-> Undefined]

onFetch(request, cfg) ==
    LET calls == onFetchCalls(request, cfg)
    IN IF calls = <<>> THEN FetchEvent(request, calls, "done", NotHandled, {})
       ELSE IF calls[1] = "Suppressed408"
       THEN FetchEvent(request, calls, "done", Response(408, <<>>, 0), {})
       ELSE IF calls[1] = "CacheFirstFlow"
       THEN FetchEvent(request, calls, "match", Undefined, {"match"})
       ELSE FetchEvent(request, calls, "fetch", Undefined, {"net"})

OnFetch(request) ==
    /\ activation.stage = "activated"
    /\ Len(reqs) < MaxFetches /\ Len(reqs) + nMsg < MaxEvents
    /\ reqs' = Append(reqs, [onFetch(request, config) EXCEPT
                                !.held = CachesMatch(caches, request.url)])
    /\ UNCHANGED <<activation, config, cacheVars, dbVars, msgVars, now>>

Finish(e, response, did) == [e EXCEPT !.pc = "done", !.resp = response, !.did = @ \cup did]

\* content: fetch(request) resolves; deferImages clones the response and reads its text
ContentFetchResolve(s, r) ==
    /\ reqs[s].flow = "ContentFlow" /\ reqs[s].pc = "fetch"
    /\ r \in NetResponses(reqs[s].req.url)
    /\ reqs' = [reqs EXCEPT ![s].pc = "deferImages", ![s].resp = r, ![s].raw = r]
    /\ UNCHANGED <<activation, config, cacheVars, dbVars, msgVars, now>>


\* deferImages returning the response it was given
deferImages_Raw(response, cfg) == response

\* deferImages: a new Response of the changed body, with the headers only
deferImages(response, cfg) ==
    Response(200, changeImages(response.body, ImageColor(cfg)), response.net)

ContentDeferImages(s) ==
    /\ reqs[s].flow = "ContentFlow" /\ reqs[s].pc = "deferImages"
    /\ reqs' = [reqs EXCEPT ![s].pc = "deferYoutube", ![s].resp = deferImages(@, config)]
    /\ UNCHANGED <<activation, config, cacheVars, dbVars, msgVars, now>>

deferYoutubeVideos(response, cfg) ==
    Response(200,
             IF YoutubeEnabled(cfg) THEN ReplaceYoutube(response.body, 1) ELSE response.body,
             response.net)

\* deferYoutubeVideos, then addToCache; its result answers the request
ContentDeferYoutube(s) ==
    /\ reqs[s].flow = "ContentFlow" /\ reqs[s].pc = "deferYoutube"
    /\ LET response == deferYoutubeVideos(reqs[s].resp, config)
           write == addToCache(cacheName("content"), reqs[s].req.url, response, config,
                               <<"fetch", s>>)
       IN /\ puts' = puts \cup write
          /\ reqs' = [reqs EXCEPT ![s] = Finish(@, response, IF write = {} THEN {} ELSE {"put"})]
    /\ UNCHANGED <<activation, config, caches, trims, dbVars, msgVars, now>>

\* content: fetch(request) rejects; fetchFromCache calls caches.match
ContentFetchReject(s) ==
    /\ reqs[s].flow = "ContentFlow" /\ reqs[s].pc = "fetch"
    /\ reqs' = [reqs EXCEPT ![s].pc = "fallbackMatch", ![s].did = @ \cup {"netFailed", "match"}]
    /\ UNCHANGED <<activation, config, cacheVars, dbVars, msgVars, now>>

\* fetchFromCache: caches.match resolves; a miss throws and offlineResponse runs
ContentFallbackMatch(s) ==
    /\ reqs[s].flow = "ContentFlow" /\ reqs[s].pc = "fallbackMatch"
    /\ LET found == CachesMatch(caches, reqs[s].req.url)
           offline == offlineResponse("content", config)
       IN reqs' = [reqs EXCEPT ![s] =
                    IF found # Undefined THEN Finish(@, found, {})
                    ELSE IF offline.kind = "match"
                    THEN [@ EXCEPT !.pc = "offlineMatch", !.arg = offline.url]
                    ELSE Finish(@, offline.resp, {})]
    /\ UNCHANGED <<activation, config, cacheVars, dbVars, msgVars, now>>

\* caches.match(config.offline.page) resolves
ContentOfflineMatch(s) ==
    /\ reqs[s].flow = "ContentFlow" /\ reqs[s].pc = "offlineMatch"
    /\ reqs' = [reqs EXCEPT ![s] = Finish(@, CachesMatch(caches, reqs[s].arg), {})]
    /\ UNCHANGED <<activation, config, cacheVars, dbVars, msgVars, now>>


\* cache-first going to the network whatever the cache holds
CacheFirstMatch_AlwaysFetch(s) ==
    /\ reqs[s].flow = "CacheFirstFlow" /\ reqs[s].pc = "match"
    /\ reqs' = [reqs EXCEPT ![s].pc = "fetch", ![s].did = @ \cup {"net"}]
    /\ UNCHANGED <<activation, config, cacheVars, dbVars, msgVars, now>>

\* image / static: caches.match resolves; a hit skips the fetch and goes to
\* addToCache, a miss calls fetch(request)
CacheFirstMatch(s) ==
    /\ reqs[s].flow = "CacheFirstFlow" /\ reqs[s].pc = "match"
    /\ LET found == CachesMatch(caches, reqs[s].req.url)
           write == IF found = Undefined THEN {}
                    ELSE addToCache(cacheName(ResourceType(reqs[s].req)), reqs[s].req.url,
                                    found, config, <<"fetch", s>>)
       IN /\ puts' = puts \cup write
          /\ reqs' = [reqs EXCEPT ![s] =
                        IF found = Undefined
                        THEN [@ EXCEPT !.pc = "fetch", !.did = @ \cup {"net"}]
                        ELSE Finish(@, found, IF write = {} THEN {} ELSE {"put"})]
    /\ UNCHANGED <<activation, config, caches, trims, dbVars, msgVars, now>>

CacheFirstFetchResolve(s, r) ==
    /\ reqs[s].flow = "CacheFirstFlow" /\ reqs[s].pc = "fetch"
    /\ r \in NetResponses(reqs[s].req.url)
    /\ LET write == addToCache(cacheName(ResourceType(reqs[s].req)), reqs[s].req.url,
                               r, config, <<"fetch", s>>)
       IN /\ puts' = puts \cup write
          /\ reqs' = [reqs EXCEPT ![s] =
                        Finish([@ EXCEPT !.raw = r], r, IF write = {} THEN {} ELSE {"put"})]
    /\ UNCHANGED <<activation, config, caches, trims, dbVars, msgVars, now>>

CacheFirstFetchReject(s) ==
    /\ reqs[s].flow = "CacheFirstFlow" /\ reqs[s].pc = "fetch"
    /\ reqs' = [reqs EXCEPT ![s] =
                  Finish(@, offlineResponse(ResourceType(reqs[s].req), config).resp,
                         {"netFailed"})]
    /\ UNCHANGED <<activation, config, cacheVars, dbVars, msgVars, now>>

\* the Error object store() returns when the beacon's fetch was rejected
FetchError == [error |-> TRUE]

\* what store() finds: the url is already a key of the object store
Queued(records, url) == IF \E r \in records : r.url = url THEN {"queued"} ELSE {}

\* the beacon chain without the then(): only a failed fetch is stored
BeaconSettle_OnlyFailures(s, outcome) ==
    /\ reqs[s].flow = "BeaconFlow" /\ reqs[s].pc = "fetch"
    /\ outcome \in NetResponses(reqs[s].req.url) \cup {FetchError}
    /\ IF outcome # FetchError
       THEN /\ idb' = idb
            /\ reqs' = [reqs EXCEPT ![s] = [Finish(@, outcome, {}) EXCEPT !.raw = outcome]]
       ELSE IF database
       THEN /\ idb' = store(idb, reqs[s].req.url, now)
            /\ reqs' = [reqs EXCEPT ![s] =
                          [Finish(@, outcome, {"store"} \cup Queued(idb, reqs[s].req.url))
                             EXCEPT !.raw = outcome]]
       ELSE /\ idb' = idb
            /\ reqs' = [reqs EXCEPT ![s] = [Finish(@, Rejected, {}) EXCEPT !.raw = outcome]]
    /\ UNCHANGED <<activation, config, cacheVars, database, dbOpening, getAlls, replays, msgVars, now>>

\* beacon: the fetch settles and store() runs; getObjectStore throws while
\* globalConfig.analytics.database is not set, in then() and again in catch()
BeaconSettle(s, outcome) ==
    /\ reqs[s].flow = "BeaconFlow" /\ reqs[s].pc = "fetch"
    /\ outcome \in NetResponses(reqs[s].req.url) \cup {FetchError}
    /\ IF database
       THEN /\ idb' = store(idb, reqs[s].req.url, now)
            /\ reqs' = [reqs EXCEPT ![s] =
                          [Finish(@, outcome, {"store"} \cup Queued(idb, reqs[s].req.url))
                             EXCEPT !.raw = outcome]]
       ELSE /\ idb' = idb
            /\ reqs' = [reqs EXCEPT ![s] = [Finish(@, Rejected, {}) EXCEPT !.raw = outcome]]
    /\ UNCHANGED <<activation, config, cacheVars, database, dbOpening, getAlls, replays, msgVars, now>>

(***************************************************************************)
(* Cache writes and trimming.                                              *)
(***************************************************************************)
\* the write of addToCache is performed: caches.open(cacheKey), then
\* cache.put(request, copy)
PutDone(w) ==
    /\ w \in puts
    /\ caches' = PutEntry(OpenCache(caches, w.name), w.name, w.key, w.resp)
    /\ puts' = puts \ {w}
    /\ UNCHANGED <<activation, config, reqs, trims, dbVars, msgVars, now>>

\* trimCaches: caches.keys() resolves and trimCache is called for every cache
TrimCacheKeys(t) ==
    /\ t \in trims /\ t.stage = "cacheKeys"
    /\ trims' = (trims \ {t}) \cup
                {[t EXCEPT !.stage = "keys", !.name = caches[i].name] : i \in DOMAIN caches}
    /\ UNCHANGED <<activation, config, caches, reqs, puts, dbVars, msgVars, now>>

\* trimCache: caches.open(cacheName), then cache.keys() resolves; within the
\* limit the trim ends, otherwise cache.delete(keys[0]) is called
TrimKeys(t) ==
    /\ t \in trims /\ t.stage = "keys"
    /\ LET keys == CacheKeys(caches, t.name)
       IN trims' = (trims \ {t}) \cup
                   (IF LengthWithin(Len(keys), MaxItems(config)) THEN {}
                    ELSE {[t EXCEPT !.stage = "delete",
                                    !.key = IF keys = <<>> THEN NoUrl ELSE keys[1]]})
    /\ caches' = OpenCache(caches, t.name)
    /\ UNCHANGED <<activation, config, reqs, puts, dbVars, msgVars, now>>

\* trimCache: cache.delete(keys[0]) resolves and trimCache is called again
TrimDelete(t) ==
    /\ t \in trims /\ t.stage = "delete"
    /\ caches' = DeleteEntry(caches, t.name, t.key)
    /\ trims' = (trims \ {t}) \cup
                {[t EXCEPT !.stage = "keys", !.key = NoUrl, !.deleted = @ + 1]}
    /\ UNCHANGED <<activation, config, reqs, puts, dbVars, msgVars, now>>

(***************************************************************************)
(* The message event (onMessage) and what its handlers start.              *)
(***************************************************************************)
\* setConfig that merges into a copy and leaves var config as it was
SetConfig_NoMerge(newConfig) ==
    /\ nMsg < MaxMessages /\ Len(reqs) + nMsg < MaxEvents
    /\ nMsg' = nMsg + 1
    /\ config' = config
    /\ LET merged == mergeDeep(config, newConfig)
       IN /\ trims' = trims \cup trimCaches(merged, nMsg')
          /\ prefetches' = prefetches \cup
                (IF PrefetchEnabled(merged) /\ Truthy(PrefetchItems(merged))
                 THEN prefetch(PrefetchItems(merged).a, merged, nMsg')
                 ELSE {})
    /\ dbOpening' = dbOpening + 1
    /\ broadcasts' = broadcasts \cup {[id |-> nMsg', config |-> newConfig]}
    /\ UNCHANGED <<activation, caches, reqs, puts, database, idb, getAlls, replays, now, posted, thrown>>

\* setConfig: mergeDeep, trimCaches, prefetch of prefetch.items,
\* openDatabase and sendMessage('isConfigured'), all in the one call
SetConfig(newConfig) ==
    /\ nMsg < MaxMessages /\ Len(reqs) + nMsg < MaxEvents
    /\ nMsg' = nMsg + 1
    /\ LET merged == mergeDeep(config, newConfig)
       IN /\ config' = merged
          /\ trims' = trims \cup trimCaches(merged, nMsg')
          /\ prefetches' = prefetches \cup
                (IF PrefetchEnabled(merged) /\ Truthy(PrefetchItems(merged))
                 THEN prefetch(PrefetchItems(merged).a, merged, nMsg')
                 ELSE {})
    /\ dbOpening' = dbOpening + 1
    /\ broadcasts' = broadcasts \cup {[id |-> nMsg', config |-> newConfig]}
    /\ UNCHANGED <<activation, caches, reqs, puts, database, idb, getAlls, replays, now, posted, thrown>>

\* the prefetch command
Prefetch(urls) ==
    /\ nMsg < MaxMessages /\ Len(reqs) + nMsg < MaxEvents
    /\ nMsg' = nMsg + 1
    /\ prefetches' = prefetches \cup prefetch(urls, config, nMsg')
    /\ UNCHANGED <<activation, config, cacheVars, reqs, dbVars, now, broadcasts, posted, thrown>>

\* prefetch: fetch(url) resolves and addToCache runs
PrefetchResolve(p, r) ==
    /\ p \in prefetches
    /\ r \in NetResponses(p.url)
    /\ prefetches' = prefetches \ {p}
    /\ puts' = puts \cup addToCache(cacheName("content"), p.url, r, config, <<"prefetch", p.id>>)
    /\ UNCHANGED <<activation, config, caches, reqs, trims, dbVars, now, broadcasts, posted, nMsg, thrown>>

\* prefetch: fetch(url) rejects
PrefetchReject(p) ==
    /\ p \in prefetches
    /\ prefetches' = prefetches \ {p}
    /\ UNCHANGED <<activation, config, cacheVars, reqs, dbVars, now, broadcasts, posted, nMsg, thrown>>

\* retryAnalyticsRequests: getObjectStore throws while the database is not
\* set, otherwise getAll() is requested
retryAnalyticsRequests(db, pending, id) ==
    IF db THEN [threw |-> FALSE, getAlls |-> pending \cup {id}]
    ELSE [threw |-> TRUE, getAlls |-> pending]

\* the reconnected command
Reconnected ==
    /\ nMsg < MaxMessages /\ Len(reqs) + nMsg < MaxEvents
    /\ nMsg' = nMsg + 1
    /\ LET retry == retryAnalyticsRequests(database, getAlls, <<"msg", nMsg', 0>>)
       IN /\ getAlls' = retry.getAlls
          /\ thrown' = IF retry.threw THEN thrown \cup {nMsg'} ELSE thrown
    /\ UNCHANGED <<activation, config, cacheVars, reqs, database, dbOpening, idb, replays, now,
                   broadcasts, posted, prefetches>>

\* openDatabase: onsuccess sets the database and calls retryAnalyticsRequests
DbOpenSuccess ==
    /\ dbOpening > 0
    /\ dbOpening' = dbOpening - 1
    /\ database' = TRUE
    /\ getAlls' = retryAnalyticsRequests(TRUE, getAlls, <<"open", nMsg, dbOpening>>).getAlls
    /\ UNCHANGED <<activation, config, cacheVars, reqs, idb, replays, now, msgVars>>

\* openDatabase: onerror logs the error
DbOpenError ==
    /\ dbOpening > 0
    /\ dbOpening' = dbOpening - 1
    /\ UNCHANGED <<activation, config, cacheVars, reqs, database, idb, getAlls, replays, now, msgVars>>

\* queueTime >= config.analytics.maxTime
Expired_AtLeast(queueTime, cfg) ==
    AnalyticsMaxTime(cfg).t = "number" /\ queueTime >= AnalyticsMaxTime(cfg).n

\* queueTime > config.analytics.maxTime
Expired(queueTime, cfg) ==
    AnalyticsMaxTime(cfg).t = "number" /\ queueTime > AnalyticsMaxTime(cfg).n

\* retryAnalyticsRequests: getAll().onsuccess; expired records are deleted,
\* the others are fetched again
RetryGetAll(g) ==
    /\ g \in getAlls
    /\ getAlls' = getAlls \ {g}
    /\ LET expired == {request \in idb : Expired(now - request.timestamp, config)}
       IN /\ idb' = {r \in idb : \A request \in expired : r.url # request.url}
          /\ replays' = replays \cup
                {[by |-> g, url |-> request.url, queueTime |-> now - request.timestamp,
                  settled |-> "pending", status |-> 0] :
                    request \in idb \ expired}
    /\ UNCHANGED <<activation, config, cacheVars, reqs, database, dbOpening, now, msgVars>>

ReplayStatuses == {200, 404, 500}

\* the replay fetches that have not settled
InFlight(fetches) == {rp \in fetches : rp.settled = "pending"}

\* the outcome of the replay fetch that settled last
Settled(url, settled, status) ==
    [by |-> <<"settled", 0, 0>>, url |-> url, queueTime |-> 0,
     settled |-> settled, status |-> status]

\* the replay fetch resolves, and only a server error keeps the record
ReplayResolve_ServerErrors(rp, status) ==
    /\ rp \in replays /\ rp.settled = "pending"
    /\ status \in ReplayStatuses
    /\ replays' = InFlight(replays \ {rp}) \cup {Settled(rp.url, "response", status)}
    /\ idb' = IF 500 <= status THEN idb ELSE Remove(idb, rp.url)
    /\ UNCHANGED <<activation, config, cacheVars, reqs, database, dbOpening, getAlls, now, msgVars>>

\* the replay fetch resolves: the record is deleted unless 400 <= status
ReplayResolve(rp, status) ==
    /\ rp \in replays /\ rp.settled = "pending"
    /\ status \in ReplayStatuses
    /\ replays' = InFlight(replays \ {rp}) \cup {Settled(rp.url, "response", status)}
    /\ idb' = IF 400 <= status THEN idb ELSE Remove(idb, rp.url)
    /\ UNCHANGED <<activation, config, cacheVars, reqs, database, dbOpening, getAlls, now, msgVars>>

\* the replay fetch rejects: the chain has no catch()
ReplayReject(rp) ==
    /\ rp \in replays /\ rp.settled = "pending"
    /\ replays' = InFlight(replays \ {rp}) \cup {Settled(rp.url, "failed", 0)}
    /\ UNCHANGED <<activation, config, cacheVars, reqs, database, dbOpening, idb, getAlls, now, msgVars>>

\* sendMessage: clients.matchAll() resolves and the message is posted
PostMessage(b) ==
    /\ b \in broadcasts
    /\ broadcasts' = broadcasts \ {b}
    /\ posted' = posted \cup {b}
    /\ UNCHANGED <<activation, config, cacheVars, reqs, dbVars, now, nMsg, thrown, prefetches>>

\* time passes
Tick ==
    /\ now < MaxClock
    /\ now' = now + 1
    /\ UNCHANGED <<activation, config, cacheVars, reqs, dbVars, msgVars>>

Slots == DOMAIN reqs

Next ==
    \/ \E request \in Requests : OnFetch(request)
    \/ \E s \in Slots : \E r \in NetResponses(reqs[s].req.url) : ContentFetchResolve(s, r)
    \/ \E s \in Slots : ContentDeferImages(s)
    \/ \E s \in Slots : ContentDeferYoutube(s)
    \/ \E s \in Slots : ContentFetchReject(s)
    \/ \E s \in Slots : ContentFallbackMatch(s)
    \/ \E s \in Slots : ContentOfflineMatch(s)
    \/ \E s \in Slots : CacheFirstMatch(s)
    \/ \E s \in Slots : \E r \in NetResponses(reqs[s].req.url) : CacheFirstFetchResolve(s, r)
    \/ \E s \in Slots : CacheFirstFetchReject(s)
    \/ \E s \in Slots : \E o \in NetResponses(reqs[s].req.url) \cup {FetchError} :
            BeaconSettle(s, o)
    \/ \E w \in puts : PutDone(w)
    \/ \E t \in trims : TrimCacheKeys(t)
    \/ \E t \in trims : TrimKeys(t)
    \/ \E t \in trims : TrimDelete(t)
    \/ \E newConfig \in Overrides : SetConfig(newConfig)
    \/ \E urls \in PrefetchLists : Prefetch(urls)
    \/ \E p \in prefetches : \E r \in NetResponses(p.url) : PrefetchResolve(p, r)
    \/ \E p \in prefetches : PrefetchReject(p)
    \/ Reconnected
    \/ DbOpenSuccess
    \/ DbOpenError
    \/ \E g \in getAlls : RetryGetAll(g)
    \/ \E rp \in replays : \E status \in ReplayStatuses : ReplayResolve(rp, status)
    \/ \E rp \in replays : ReplayReject(rp)
    \/ \E b \in broadcasts : PostMessage(b)
    \/ Tick

Spec == Init /\ [][Next]_vars

TypeOK ==
    /\ \A s \in Slots : reqs[s].pc \in {"done", "fetch", "deferImages", "deferYoutube",
                                        "fallbackMatch", "offlineMatch", "match"}
    /\ now \in 0..MaxClock

(***************************************************************************)
(* The fetch and cache side of the worker: the fetch event and its flows,  *)
(* the cache writes, the trims, and the commands that configure and fill   *)
(* the caches.  The steps left out (the reconnected command, the replay    *)
(* of the retry queue, the posting of the broadcast, the clock) read and   *)
(* write none of the configuration, the fetch events, the caches, the      *)
(* cache writes and the trims.                                             *)
(***************************************************************************)
NextFetch ==
    \/ \E request \in Requests : OnFetch(request)
    \/ \E s \in Slots : \E r \in NetResponses(reqs[s].req.url) : ContentFetchResolve(s, r)
    \/ \E s \in Slots : ContentDeferImages(s)
    \/ \E s \in Slots : ContentDeferYoutube(s)
    \/ \E s \in Slots : ContentFetchReject(s)
    \/ \E s \in Slots : ContentFallbackMatch(s)
    \/ \E s \in Slots : ContentOfflineMatch(s)
    \/ \E s \in Slots : CacheFirstMatch(s)
    \/ \E s \in Slots : \E r \in NetResponses(reqs[s].req.url) : CacheFirstFetchResolve(s, r)
    \/ \E s \in Slots : CacheFirstFetchReject(s)
    \/ \E s \in Slots : \E o \in NetResponses(reqs[s].req.url) \cup {FetchError} :
            BeaconSettle(s, o)
    \/ \E w \in puts : PutDone(w)
    \/ \E t \in trims : TrimCacheKeys(t)
    \/ \E t \in trims : TrimKeys(t)
    \/ \E t \in trims : TrimDelete(t)
    \/ \E newConfig \in Overrides : OneAtATime /\ SetConfig(newConfig)
    \/ \E urls \in PrefetchLists : OneAtATime /\ Prefetch(urls)
    \/ \E p \in prefetches : \E r \in NetResponses(p.url) : PrefetchResolve(p, r)
    \/ \E p \in prefetches : PrefetchReject(p)
    \/ DbOpenSuccess
    \/ DbOpenError

SpecFetch == Init /\ [][NextFetch]_vars

(***************************************************************************)
(* Properties of the fetch policy.                                         *)
(***************************************************************************)
Flows == {"Suppressed408", "PassThrough", "ContentFlow", "CacheFirstFlow", "BeaconFlow"}
CacheFlows == {"ContentFlow", "CacheFirstFlow"}

\* the steps of each flow: <<flow, from, to>>
FlowSteps ==
    { <<"ContentFlow", "fetch", "deferImages">>,
      <<"ContentFlow", "deferImages", "deferYoutube">>,
      <<"ContentFlow", "deferYoutube", "done">>,
      <<"ContentFlow", "fetch", "fallbackMatch">>,
      <<"ContentFlow", "fallbackMatch", "done">>,
      <<"ContentFlow", "fallbackMatch", "offlineMatch">>,
      <<"ContentFlow", "offlineMatch", "done">>,
      <<"CacheFirstFlow", "match", "done">>,
      <<"CacheFirstFlow", "match", "fetch">>,
      <<"CacheFirstFlow", "fetch", "done">>,
      <<"BeaconFlow", "fetch", "done">> }

\* the fetch events that arrive in a step
Arriving == (DOMAIN reqs') \ (DOMAIN reqs)

HasEntry(cs, url) ==
    \E i \in DOMAIN cs : \E j \in DOMAIN cs[i].entries : cs[i].entries[j].key = url

EntriesOf(cs, url) ==
    UNION {{cs[i].entries[j].resp :
                j \in {k \in DOMAIN cs[i].entries : cs[i].entries[k].key = url}} :
           i \in DOMAIN cs}

ContentCache(cs) ==
    LET i == CacheIndex(cs, <<Version, ":sw-cache::", "content">>)
    IN IF i = 0 THEN <<>> ELSE cs[i].entries

\* C1: every intercepted request is classified once, into exactly one of the
\* five flows, with at most one respondWith call (none exactly for
\* PassThrough); its classification never changes afterwards, and every
\* step it takes, a fallback after a failure included, is a step of its own
\* flow.
C1_OneFlowPerRequest ==
    /\ [](\A s \in DOMAIN reqs :
            /\ reqs[s].flow \in Flows
            /\ Len(reqs[s].calls) <= 1
            /\ (Len(reqs[s].calls) = 0) <=> (reqs[s].flow = "PassThrough")
            /\ reqs[s].flow \in {"Suppressed408", "PassThrough"} => reqs[s].pc = "done")
    /\ [][\A s \in DOMAIN reqs :
            /\ reqs'[s].flow = reqs[s].flow
            /\ reqs'[s].calls = reqs[s].calls
            /\ reqs'[s].req = reqs[s].req
            /\ \/ reqs'[s].pc = reqs[s].pc
               \/ <<reqs[s].flow, reqs[s].pc, reqs'[s].pc>> \in FlowSteps]_vars

\* a content request whose network fetch failed has been answered by its fallback
C1_Witness ==
    \E s \in DOMAIN reqs :
        /\ reqs[s].flow = "ContentFlow" /\ reqs[s].pc = "done"
        /\ "netFailed" \in reqs[s].did

OfflinePage(cfg) == Get(Get(cfg, "offline"), "page")

\* C2: a content request calls the network first and reads the cache only
\* after the fetch failed; the failed request is answered with its cached
\* copy when there is one, otherwise with the result of the cache lookup of
\* offline.page when that is configured, otherwise with undefined.
C2_ContentNetworkFirst ==
    /\ [](\A s \in DOMAIN reqs : reqs[s].flow = "ContentFlow" =>
            /\ "net" \in reqs[s].did
            /\ "match" \in reqs[s].did => "netFailed" \in reqs[s].did
            /\ "netFailed" \in reqs[s].did => reqs[s].raw = Undefined)
    /\ [][\A s \in DOMAIN reqs : reqs[s].flow = "ContentFlow" =>
            /\ (reqs[s].pc = "fallbackMatch" /\ reqs'[s].pc # "fallbackMatch") =>
                 IF HasEntry(caches, reqs[s].req.url)
                 THEN /\ reqs'[s].pc = "done"
                      /\ reqs'[s].resp \in EntriesOf(caches, reqs[s].req.url)
                 ELSE IF Truthy(OfflinePage(config))
                 THEN /\ reqs'[s].pc = "offlineMatch"
                      /\ reqs'[s].arg = Url(SelfOrigin, OfflinePage(config).s)
                 ELSE /\ reqs'[s].pc = "done"
                      /\ reqs'[s].resp = Undefined
            /\ (reqs[s].pc = "offlineMatch" /\ reqs'[s].pc # "offlineMatch") =>
                 /\ reqs'[s].pc = "done"
                 /\ IF HasEntry(caches, reqs[s].arg)
                    THEN reqs'[s].resp \in EntriesOf(caches, reqs[s].arg)
                    ELSE reqs'[s].resp = Undefined]_vars

\* a failed content request without a cached copy was answered with the
\* cached offline page
C2_Witness ==
    \E s \in DOMAIN reqs :
        /\ reqs[s].flow = "ContentFlow" /\ reqs[s].pc = "done"
        /\ "netFailed" \in reqs[s].did
        /\ reqs[s].arg = OfflineUrl
        /\ reqs[s].resp \in EntriesOf(caches, OfflineUrl)

\* C3: an image or static request that finds a cache entry for its URL is
\* answered with that entry and calls the network neither before nor after.
C3_CacheFirstHit ==
    /\ [][\A s \in DOMAIN reqs :
            (/\ reqs[s].flow = "CacheFirstFlow"
             /\ reqs[s].pc = "match" /\ reqs'[s].pc # "match"
             /\ HasEntry(caches, reqs[s].req.url)) =>
                /\ reqs'[s].pc = "done"
                /\ reqs'[s].resp \in EntriesOf(caches, reqs[s].req.url)
                /\ "net" \notin reqs'[s].did]_vars
    /\ [](\A s \in DOMAIN reqs :
            (reqs[s].flow = "CacheFirstFlow" /\ "net" \notin reqs[s].did) =>
                reqs[s].raw = Undefined)

\* an image request was answered from the cache without a network call
C3_Witness ==
    \E s \in DOMAIN reqs :
        /\ reqs[s].flow = "CacheFirstFlow" /\ reqs[s].pc = "done"
        /\ ResourceType(reqs[s].req) = "image"
        /\ "net" \notin reqs[s].did
        /\ reqs[s].resp \in EntriesOf(caches, reqs[s].req.url)

\* the body the pipeline makes of a network body: the image pass, then the
\* video pass when defer.youtube.enabled is set
Rewritten(body, cfg) ==
    LET images == changeImages(body, ImageColor(cfg))
    IN IF YoutubeEnabled(cfg) THEN ReplaceYoutube(images, 1) ELSE images

\* the step in which a content request whose fetch succeeded reaches the store
StoreStep(s) ==
    /\ reqs[s].flow = "ContentFlow"
    /\ reqs[s].pc = "deferYoutube" /\ reqs'[s].pc = "done"

\* a write of the rewritten body under the request's URL goes to the content cache
WriteDispatched(s) ==
    \E w \in puts' :
        /\ w.by = <<"fetch", s>>
        /\ w.name = <<Version, ":sw-cache::", "content">>
        /\ w.key = reqs[s].req.url
        /\ w.resp.body = Rewritten(reqs[s].raw.body, config)

\* a write of a content request that is performed leaves its entry in the content cache
WritesPerformed ==
    \A w \in puts \ puts' :
        (w.by[1] = "fetch" /\ reqs[w.by[2]].flow = "ContentFlow") =>
            \E j \in DOMAIN ContentCache(caches') :
                ContentCache(caches')[j] = [key |-> w.key, resp |-> w.resp]

\* C4 as stated: every content request whose network fetch succeeds gets a
\* copy with the rewritten body into the content cache.
C4_Original ==
    [][/\ \A s \in DOMAIN reqs : StoreStep(s) => WriteDispatched(s)
       /\ WritesPerformed]_vars

\* C4 (amended): a content request whose network fetch succeeds while
\* cache.enabled is true at the store step gets a write of the rewritten
\* body dispatched, and the write, once performed, leaves the copy with the
\* rewritten body in the content cache.
C4_ContentStoredRewritten ==
    [][/\ \A s \in DOMAIN reqs :
            (StoreStep(s) /\ CacheEnabled(config)) => WriteDispatched(s)
       /\ WritesPerformed]_vars

\* the content cache holds the copy of a fetched page, and its body is the
\* rewritten one and differs from the network body
C4_Witness ==
    \E s \in DOMAIN reqs :
        /\ reqs[s].flow = "ContentFlow" /\ reqs[s].pc = "done"
        /\ reqs[s].raw # Undefined
        /\ reqs[s].resp.body # reqs[s].raw.body
        /\ \E j \in DOMAIN ContentCache(caches) :
              /\ ContentCache(caches)[j].key = reqs[s].req.url
              /\ ContentCache(caches)[j].resp.body = reqs[s].resp.body

\* C5: every cache entry derives from a network response with a successful
\* status, and no entry is written while cache.enabled is false.
C5_OnlyOkStored ==
    /\ [](\A i \in DOMAIN caches : \A j \in DOMAIN caches[i].entries :
            /\ caches[i].entries[j].resp.net >= 200
            /\ caches[i].entries[j].resp.net <= 299)
    /\ [][caches' # caches => CacheEnabled(config)]_vars

\* shouldSaveData's condition, on the request and the configuration
SuppressionApplies(request, cfg) ==
    /\ request.saveData
    /\ Truthy(Get(cfg, "saveDataItems"))
    /\ \E i \in DOMAIN Get(cfg, "saveDataItems").a :
          Includes(Href(request.url), Tok(Get(cfg, "saveDataItems").a[i]))

\* C6: a request with save-data whose URL contains an entry of saveDataItems
\* is answered 408 at once; it causes no network fetch, no cache read, no
\* cache write and no write to the retry queue, then or later.
C6_SaveDataSuppressed ==
    /\ [][\A s \in Arriving : SuppressionApplies(reqs'[s].req, config) =>
            /\ reqs'[s].flow = "Suppressed408"
            /\ reqs'[s].resp = Response(408, <<>>, 0)
            /\ caches' = caches /\ puts' = puts /\ idb' = idb]_vars
    /\ [](\A s \in DOMAIN reqs : reqs[s].flow = "Suppressed408" =>
            /\ reqs[s].pc = "done"
            /\ reqs[s].did = {}
            /\ reqs[s].resp.status = 408
            /\ ~ \E w \in puts : w.by = <<"fetch", s>>)

\* a same-origin GET that the cache flows would take was answered 408
C6_Witness ==
    \E s \in DOMAIN reqs :
        /\ reqs[s].flow = "Suppressed408"
        /\ reqs[s].req.method = "GET" /\ reqs[s].req.url.origin = SelfOrigin

\* the four criteria of C7, on the request and the configuration
FourCriteria(request, cfg) ==
    LET patterns == Get(Get(cfg, "cache"), "noCachePatterns")
        items == Get(Get(cfg, "cache"), "noCacheItems")
    IN /\ request.method = "GET"
       /\ request.url.origin = SelfOrigin
       /\ Truthy(patterns) =>
            \A i \in DOMAIN patterns.a : ~RegexTest(patterns.a[i], Tok(request.url.pathname))
       /\ Truthy(items) => \A i \in DOMAIN items.a : items.a[i] # request.url.pathname

\* a request outside the cache flows neither reads the cache nor writes to it
NoCacheUse ==
    \A s \in DOMAIN reqs : reqs[s].flow \notin CacheFlows =>
        /\ reqs[s].did \cap {"match", "put"} = {}
        /\ ~ \E w \in puts : w.by = <<"fetch", s>>

\* C7 as stated: a request is handled by the cache flows iff it meets the
\* four criteria.
C7_Original ==
    /\ [][\A s \in Arriving :
            (reqs'[s].flow \in CacheFlows) <=> FourCriteria(reqs'[s].req, config)]_vars
    /\ []NoCacheUse

\* C7 (amended): a request that save-data suppression does not answer is
\* handled by the cache flows iff it meets the four criteria; a request
\* failing one of them is never handled by the cache flows, never answered
\* from the cache and never written to it.
C7_EligibleIffCriteria ==
    /\ [][\A s \in Arriving :
            /\ ~SuppressionApplies(reqs'[s].req, config) =>
                 ((reqs'[s].flow \in CacheFlows) <=> FourCriteria(reqs'[s].req, config))
            /\ ~FourCriteria(reqs'[s].req, config) => reqs'[s].flow \notin CacheFlows]_vars
    /\ []NoCacheUse

\* a same-origin GET of a page was kept out of the cache flows by an exclusion
C7_Witness ==
    \E s \in DOMAIN reqs :
        /\ reqs[s].req.method = "GET" /\ reqs[s].req.url.origin = SelfOrigin
        /\ ~reqs[s].req.saveData
        /\ reqs[s].flow = "PassThrough"

\* C8: a same-origin GET of /sw.min.js is never handled by the cache flows
\* and no cache holds an entry for it.
C8_BootstrapNotCached ==
    /\ \A s \in DOMAIN reqs :
          (reqs[s].req.url = SwUrl /\ reqs[s].req.method = "GET") =>
              reqs[s].flow \notin CacheFlows
    /\ ~HasEntry(caches, SwUrl)

\* C9: with caching enabled and cache.maxItems = N configured, no cache holds
\* more than N entries in a state where no trim is running.
C9_MaxItemsHeld ==
    (/\ CacheEnabled(config)
     /\ Truthy(MaxItems(config)) /\ MaxItems(config).t = "number"
     /\ trims = {}) =>
        \A i \in DOMAIN caches : Len(caches[i].entries) <= MaxItems(config).n

(***************************************************************************)
(* One trim at a time: a setConfig with cache.maxItems and prefetch.items  *)
(* fills the content cache from the network, and the trim it starts looks  *)
(* at the caches once the writes are done; the next setConfig comes when   *)
(* the trim has ended.                                                     *)
(***************************************************************************)
TrimPaths == <<"/page", "/offline", "/admin/form", "/img/a.png", "/sw.min.js">>

TrimOverrides ==
    { Obj([cache |-> Obj([maxItems |-> Num(n)]),
           prefetch |-> Obj([items |-> Arr(SubSeq(TrimPaths, 1, k))])]) :
        n \in 1..2, k \in 1..MaxTrimPuts }

Quiet == puts = {} /\ prefetches = {}

TrimProgress ==
    \/ \E p \in prefetches : \E r \in NetResponses(p.url) : PrefetchResolve(p, r)
    \/ \E p \in prefetches : PrefetchReject(p)
    \/ \E w \in puts : PutDone(w)
    \/ \E t \in trims : Quiet /\ TrimCacheKeys(t)
    \/ \E t \in trims : TrimKeys(t)
    \/ \E t \in trims : TrimDelete(t)

NextTrim ==
    \/ \E newConfig \in TrimOverrides : OneAtATime /\ trims = {} /\ Quiet /\ SetConfig(newConfig)
    \/ TrimProgress

\* the event loop runs every callback that is ready
SpecTrim == Init /\ [][NextTrim]_vars /\ WF_vars(TrimProgress)

EntriesIn(cs, name) ==
    LET i == CacheIndex(cs, name) IN IF i = 0 THEN <<>> ELSE cs[i].entries

\* the trim t has ended in this step
TrimEnds(t) ==
    /\ t \in trims /\ t.stage = "keys"
    /\ ~ \E u \in trims' : u.id = t.id /\ u.name = t.name

\* C10: a trim deletes only while the cache holds more than N = cache.maxItems
\* entries, and what it deletes is the earliest inserted entry; it ends, and
\* when it ends the cache holds exactly N entries if the trim deleted
\* anything, and is as it was found (at most N entries) if it did not.
C10_TrimToLimit ==
    /\ [][\A t \in trims :
            /\ (t.stage = "delete" /\ t \notin trims') =>
                 /\ Len(EntriesIn(caches, t.name)) > MaxItems(config).n
                 /\ EntriesIn(caches, t.name)[1].key = t.key
                 /\ EntriesIn(caches', t.name) = Tail(EntriesIn(caches, t.name))
            /\ TrimEnds(t) =>
                 /\ caches' = caches
                 /\ IF t.deleted > 0
                    THEN Len(EntriesIn(caches, t.name)) = MaxItems(config).n
                    ELSE Len(EntriesIn(caches, t.name)) <= MaxItems(config).n
            /\ (t.stage = "keys" /\ t.deleted = 0
                /\ Len(EntriesIn(caches, t.name)) <= MaxItems(config).n) => TrimEnds(t)]_vars
    /\ (trims # {}) ~> (trims = {})

\* three entries were put, the limit is two, and the trim has deleted exactly
\* one entry, leaving two
C10_Witness ==
    \E t \in trims :
        /\ t.stage = "keys" /\ t.deleted = 1
        /\ MaxItems(config) = Num(2)
        /\ Len(EntriesIn(caches, t.name)) = 2

(***************************************************************************)
(* The activate event (onActivate): caches.keys(), caches.delete() for     *)
(* every key that does not start with globalConfig.version, and            *)
(* clients.claim() when all the deletions are done.                        *)
(***************************************************************************)
\* key => 0 === key.indexOf(globalConfig.version): the key does not pass the filter
IsOldKey_NotContained(key) == IndexOf(key, <<Version>>) = 0

\* key => (0 !== key.indexOf(globalConfig.version))
IsOldKey(key) == IndexOf(key, <<Version>>) # 1

\* caches.delete(name)
RemoveCache(cs, name) == SelectSeq(cs, LAMBDA c : c.name # name)

\* the caches an earlier worker of the origin can have left behind
StoredCaches ==
    { [name |-> cacheName("static"),
       entries |-> <<[key |-> ImgUrl, resp |-> Response(200, PngBytes, 200)]>>],
      [name |-> <<"v0.9.0", ":sw-cache::", "image">>,
       entries |-> <<[key |-> ImgUrl, resp |-> Response(200, PngBytes, 200)]>>],
      [name |-> <<"v0.9.0", ":sw-cache::", "content">>, entries |-> <<>>],
      [name |-> <<"backup-", Version, ":sw-cache::", "content">>,
       entries |-> <<[key |-> PageUrl, resp |-> Response(200, HtmlPlain, 200)]>>] }

\* the Cache Storage when the worker is activated, in creation order
StoredCacheLists ==
    { cs \in UNION { [1..n -> StoredCaches] : n \in 0..3 } :
        \A i, j \in DOMAIN cs : i # j => cs[i] # cs[j] }

\* the activate event has been dispatched: caches.keys() is in flight
InitActivate ==
    /\ config = DefaultConfig
    /\ caches \in StoredCacheLists
    /\ reqs = <<>>
    /\ puts = {}
    /\ trims = {}
    /\ prefetches = {}
    /\ database = FALSE
    /\ dbOpening = 0
    /\ idb = {}
    /\ getAlls = {}
    /\ replays = {}
    /\ now = 0
    /\ broadcasts = {}
    /\ posted = {}
    /\ nMsg = 0
    /\ thrown = {}
    /\ activation = [stage |-> "keys", found |-> <<>>, doomed |-> {}]

\* caches.keys() resolves: caches.delete is called for every old key
ActivateKeys ==
    /\ activation.stage = "keys"
    /\ LET cacheKeys == [i \in DOMAIN caches |-> caches[i].name]
       IN activation' = [stage |-> "deleting", found |-> cacheKeys,
                         doomed |-> {cacheKeys[i] : i \in {j \in DOMAIN cacheKeys :
                                                            IsOldKey(cacheKeys[j])}}]
    /\ UNCHANGED <<config, cacheVars, reqs, dbVars, msgVars, now>>

\* one caches.delete(oldKey) is performed
ActivateDelete(oldKey) ==
    /\ activation.stage = "deleting" /\ oldKey \in activation.doomed
    /\ caches' = RemoveCache(caches, oldKey)
    /\ activation' = [activation EXCEPT !.doomed = @ \ {oldKey}]
    /\ UNCHANGED <<config, reqs, puts, trims, dbVars, msgVars, now>>

\* Promise.all resolves and clients.claim() is called
ActivateClaim ==
    /\ activation.stage = "deleting" /\ activation.doomed = {}
    /\ activation' = [activation EXCEPT !.stage = "activated"]
    /\ UNCHANGED <<config, cacheVars, reqs, dbVars, msgVars, now>>

\* the activation, with the prefetch commands of the pages and the cache
\* writes they cause
NextActivate ==
    \/ ActivateKeys
    \/ \E oldKey \in activation.doomed : ActivateDelete(oldKey)
    \/ ActivateClaim
    \/ \E urls \in PrefetchLists : OneAtATime /\ Prefetch(urls)
    \/ \E p \in prefetches : \E r \in NetResponses(p.url) : PrefetchResolve(p, r)
    \/ \E p \in prefetches : PrefetchReject(p)
    \/ \E w \in puts : PutDone(w)

SpecActivate == InitActivate /\ [][NextActivate]_vars

\* the caches of the list whose name starts with the running version
Current(cs) == SelectSeq(cs, LAMBDA c : ~IsOldKey(c.name))

\* C11: no step of the activation changes a cache whose name starts with the
\* running version, a cache that the activation deletes has a name that does
\* not start with it, and when control of the pages is claimed no cache
\* whose name does not start with the running version is left.
C11_ActivationPurgesOld ==
    [][/\ activation' # activation => Current(caches') = Current(caches)
       /\ \A i \in DOMAIN caches :
             (\A j \in DOMAIN caches' : caches'[j].name # caches[i].name)
                => (caches[i].name \in activation.doomed /\ IndexOf(caches[i].name, <<Version>>) # 1)
       /\ (activation.stage # "activated" /\ activation'.stage = "activated")
             => /\ \A i \in DOMAIN caches' : IndexOf(caches'[i].name, <<Version>>) = 1
                /\ \A j \in DOMAIN activation.found :
                      IndexOf(activation.found[j], <<Version>>) = 1
                         => \E i \in DOMAIN caches' : caches'[i].name = activation.found[j]]_vars

\* control has been claimed after the activation found a cache of the running
\* version, a cache of an older version and a cache that has the running
\* version inside its name; only the first is left, with its entry
C11_Witness ==
    /\ activation.stage = "activated"
    /\ \E j \in DOMAIN activation.found : activation.found[j] = cacheName("static")
    /\ \E j \in DOMAIN activation.found : activation.found[j] = <<"v0.9.0", ":sw-cache::", "image">>
    /\ \E j \in DOMAIN activation.found : IndexOf(activation.found[j], <<Version>>) > 1
    /\ \E i \in DOMAIN caches :
          caches[i].name = cacheName("static") /\ Len(caches[i].entries) = 1
    /\ \A i \in DOMAIN caches : IndexOf(caches[i].name, <<Version>>) = 1

(***************************************************************************)
(* The analytics side of the worker: the beacons, the object store of the  *)
(* retry queue, its opening and the replay.  The object store is durable:  *)
(* a worker that starts can find the records an earlier run has stored.    *)
(***************************************************************************)
SslBeaconUrl == Url("https://ssl.google-analytics.com", "/collect")

\* the requests to the analytics hosts the page can cause
AnalyticsRequests ==
    { Req("GET", BeaconUrl, "*/*", FALSE),
      Req("GET", SslBeaconUrl, "*/*", FALSE),
      Req("GET", Url(AnalyticsOrigin, "/analytics.js"), "*/*", FALSE) }

\* the configurations of the analytics the page sends
AnalyticsOverrides ==
    { Obj([analytics |-> Obj([maxTime |-> Num(0)])]),
      Obj([analytics |-> Obj([maxTime |-> Num(1)])]),
      Obj([analytics |-> Obj([enabled |-> Bool(FALSE)])]),
      Obj([defer |-> Obj([youtube |-> Obj([enabled |-> Bool(FALSE)])])]) }

\* what the object store can hold when the worker starts
StoredRecords ==
    SUBSET { [url |-> BeaconUrl, timestamp |-> 0], [url |-> SslBeaconUrl, timestamp |-> 0] }

InitAnalytics ==
    /\ config = DefaultConfig
    /\ caches = <<>>
    /\ reqs = <<>>
    /\ puts = {}
    /\ trims = {}
    /\ prefetches = {}
    /\ database = FALSE
    /\ dbOpening = 0
    /\ idb \in StoredRecords
    /\ getAlls = {}
    /\ replays = {}
    /\ now = 0
    /\ broadcasts = {}
    /\ posted = {}
    /\ nMsg = 0
    /\ thrown = {}
    /\ activation = Activated

NextAnalytics ==
    \/ \E request \in AnalyticsRequests : OnFetch(request)
    \/ \E s \in Slots : \E o \in NetResponses(reqs[s].req.url) \cup {FetchError} :
            BeaconSettle(s, o)
    \/ \E newConfig \in AnalyticsOverrides : OneAtATime /\ SetConfig(newConfig)
    \/ OneAtATime /\ Reconnected
    \/ DbOpenSuccess
    \/ DbOpenError
    \/ \E g \in getAlls : RetryGetAll(g)
    \/ \E rp \in replays : \E status \in ReplayStatuses : ReplayResolve(rp, status)
    \/ \E rp \in replays : ReplayReject(rp)
    \/ Tick

SpecAnalytics == InitAnalytics /\ [][NextAnalytics]_vars

\* the fetch of the beacon of slot s settles in this step
BeaconSettles(s) ==
    /\ reqs[s].flow = "BeaconFlow" /\ reqs[s].pc = "fetch"
    /\ reqs'[s].pc = "done"

GetAllDone(g) == g \in getAlls /\ g \notin getAlls'

\* a replay request is issued for the record in this step
ReplayIssued(g, record) ==
    \E rp \in replays' \ replays : rp.by = g /\ rp.url = record.url

\* C13 as stated: a record younger than analytics.maxTime is replayed, a
\* record of age analytics.maxTime or more is deleted and not replayed
C13_Original ==
    [][\A g \in getAlls : \A record \in idb :
          (GetAllDone(g) /\ AnalyticsMaxTime(config).t = "number") =>
              IF now - record.timestamp < AnalyticsMaxTime(config).n
              THEN ReplayIssued(g, record)
              ELSE record \notin idb' /\ ~ReplayIssued(g, record)]_vars

\* C13: on replay, a record whose age is at most analytics.maxTime is kept
\* and a replay request with that age is issued for it; a record whose age
\* is above analytics.maxTime is deleted and no request is issued for it.
C13_ReplayUnlessExpired ==
    [][\A g \in getAlls : \A record \in idb :
          (GetAllDone(g) /\ AnalyticsMaxTime(config).t = "number") =>
              IF now - record.timestamp <= AnalyticsMaxTime(config).n
              THEN /\ record \in idb'
                   /\ \E rp \in replays' \ replays :
                         /\ rp.by = g /\ rp.url = record.url
                         /\ rp.queueTime = now - record.timestamp
              ELSE record \notin idb' /\ ~ReplayIssued(g, record)]_vars

\* a replay request is in flight for a record whose age was analytics.maxTime,
\* at a time when a younger record could not exist
C13_Witness ==
    /\ now = 1 /\ AnalyticsMaxTime(config) = Num(1)
    /\ \E rp \in replays : rp.settled = "pending" /\ rp.queueTime = 1
    /\ \E record \in idb : record.timestamp = 0

\* the replay rp settles in this step
ReplaySettles(rp) ==
    /\ rp \in replays /\ rp.settled = "pending"
    /\ rp \notin replays'

\* the outcome of the replay rp that settles in this step
ReplayOutcome(rp) ==
    CHOOSE done \in replays' : done.url = rp.url /\ done.settled # "pending"

\* C14 as stated: the record is deleted on a success and on a 4xx status, and
\* stays only when the fetch fails or the status is 5xx
C14_Original ==
    [][\A rp \in replays : ReplaySettles(rp) =>
          IF ReplayOutcome(rp).settled = "response" /\ ReplayOutcome(rp).status < 500
          THEN \A r \in idb' : r.url # rp.url
          ELSE idb' = idb]_vars

\* C14: when the replay attempt of a record settles, the record is deleted if
\* the response status is below 400; the attempt leaves the store as it is
\* when the fetch fails or the status is 400 or more (4xx as well as 5xx).
C14_ReplayClearsBelow400 ==
    [][\A rp \in replays : ReplaySettles(rp) =>
          IF ReplayOutcome(rp).settled = "response" /\ ReplayOutcome(rp).status < 400
          THEN idb' = Remove(idb, rp.url) /\ \A r \in idb' : r.url # rp.url
          ELSE idb' = idb]_vars

\* a replay was answered 404 and its record is still queued
C14_Witness ==
    \E rp \in replays :
        /\ rp.settled = "response" /\ rp.status = 404
        /\ \E r \in idb : r.url = rp.url

\* C15: the object store never holds two records with the same url.
C15_OneRecordPerUrl ==
    \A r1 \in idb : \A r2 \in idb : r1.url = r2.url => r1 = r2

\* a beacon was recorded at time 1 for a url that was already queued: the
\* store holds the record of time 0 and no other for that url
C15_Witness ==
    \E s \in Slots :
        /\ reqs[s].pc = "done" /\ {"store", "queued"} \subseteq reqs[s].did
        /\ now = 1
        /\ [url |-> reqs[s].req.url, timestamp |-> 0] \in idb
        /\ \A r \in idb : r.url = reqs[s].req.url => r.timestamp = 0

\* what the page receives for a value given to respondWith: the response, or
\* a failed load for anything that is not a Response
Delivered(value) == IF "status" \in DOMAIN value THEN value ELSE Rejected

\* C16 as stated: while the object store is not usable, the outcome of the
\* network attempt of a beacon is what the page receives, and nothing is
\* queued
C16_BeaconWithoutStore ==
    [][\A s \in Slots :
          (BeaconSettles(s) /\ ~database) =>
              /\ Delivered(reqs'[s].resp) = Delivered(reqs'[s].raw)
              /\ idb' = idb]_vars

\* C17 as stated: no handler of a command has raised an error
C17_NoCommandThrows == thrown = {}

(***************************************************************************)
(* The message side of the worker: the commands of the page and the work   *)
(* they start (the trim, the prefetch, the opening of the object store,    *)
(* the broadcast).  The caches are durable: a worker that starts can find  *)
(* the entries an earlier run has cached.                                  *)
(***************************************************************************)
\* what the Cache Storage can hold when the worker starts
StoredContent ==
    { <<>>,
      <<[name |-> cacheName("content"),
         entries |-> <<[key |-> PageUrl, resp |-> Response(200, HtmlPlain, 200)],
                       [key |-> AdminUrl, resp |-> Response(200, HtmlPlain, 200)]>>]>> }

InitMessage ==
    /\ config = DefaultConfig
    /\ caches \in StoredContent
    /\ reqs = <<>>
    /\ puts = {}
    /\ trims = {}
    /\ prefetches = {}
    /\ database = FALSE
    /\ dbOpening = 0
    /\ idb = {}
    /\ getAlls = {}
    /\ replays = {}
    /\ now = 0
    /\ broadcasts = {}
    /\ posted = {}
    /\ nMsg = 0
    /\ thrown = {}
    /\ activation = Activated

NextMessage ==
    \/ \E newConfig \in Overrides : OneAtATime /\ SetConfig(newConfig)
    \/ \E urls \in PrefetchLists : OneAtATime /\ Prefetch(urls)
    \/ OneAtATime /\ Reconnected
    \/ \E p \in prefetches : \E r \in NetResponses(p.url) : PrefetchResolve(p, r)
    \/ \E p \in prefetches : PrefetchReject(p)
    \/ \E w \in puts : PutDone(w)
    \/ \E t \in trims : TrimCacheKeys(t)
    \/ \E t \in trims : TrimKeys(t)
    \/ \E t \in trims : TrimDelete(t)
    \/ DbOpenSuccess
    \/ DbOpenError
    \/ \E g \in getAlls : RetryGetAll(g)
    \/ \E b \in broadcasts : PostMessage(b)

SpecMessage == InitMessage /\ [][NextMessage]_vars

\* the broadcast b is delivered to the pages in this step
Delivers(b) == b \in broadcasts /\ b \in posted' /\ b \notin posted

\* the setup the setConfig message number id has started is still running
SetupRunning(id) ==
    \/ \E t \in trims : t.id = id
    \/ \E p \in prefetches : p.id = id
    \/ \E w \in puts : w.by = <<"prefetch", id>>
    \/ (dbOpening > 0 /\ nMsg = id)

\* no setConfig message has been handled after the one of the broadcast b
LastConfig(b) == \A c \in broadcasts \cup posted : c.id <= b.id

\* C18 as stated: isConfigured is delivered only when the trim, the prefetch
\* and the opening of the object store started by its setConfig are over
C18_Original ==
    [][\A b \in broadcasts : Delivers(b) => ~SetupRunning(b.id)]_vars

\* C18: isConfigured is delivered only for a setConfig message that has been
\* handled, once for each, and only after the configuration of that message
\* has been merged: as long as no later setConfig is handled, merging it
\* again changes nothing.
C18_DeliveredAfterMerge ==
    [][\A b \in broadcasts : Delivers(b) =>
          /\ b.id <= nMsg /\ b \notin broadcasts'
          /\ \A c \in posted : c.id # b.id
          /\ LastConfig(b) => mergeDeep(config, b.config) = config]_vars

\* isConfigured has been delivered while the trim and the prefetch started by
\* its setConfig are still running and the object store is not open
C18_Witness ==
    \E b \in posted :
        /\ \E t \in trims : t.id = b.id
        /\ \E p \in prefetches : p.id = b.id
        /\ dbOpening > 0 /\ ~database
        /\ Get(Get(config, "cache"), "maxItems") = Num(1)

(***************************************************************************)
(* The merge of the configuration (mergeDeep) on its own: setConfig        *)
(* applied to the configurations an earlier setConfig can have left, with  *)
(* overrides of every shape at the key offline.                            *)
(***************************************************************************)
MergeLeaves ==
    { Bool(TRUE), Bool(FALSE), Num(0), Num(1), Str(""), Str("/offline"),
      Arr(<<>>), Arr(<<"/img/">>) }

MergeValues ==
    MergeLeaves \cup {EmptyObj}
        \cup { Obj([page |-> v]) : v \in MergeLeaves }
        \cup { Obj([image |-> Str("<svg offline>")]) }
        \cup { Obj([page |-> Obj([path |-> v])]) : v \in {Str("/offline"), Num(0)} }

MergeOverrides ==
    {EmptyObj} \cup { Obj([offline |-> v]) : v \in MergeValues }
        \cup { Obj([offline |-> v, saveDataItems |-> Arr(<<"collect">>)]) :
                 v \in {Str("/offline"), Obj([page |-> Str("/offline")])} }

\* var config after an earlier setConfig
MergeBases == { mergeDeep(DefaultConfig, newConfig) : newConfig \in MergeOverrides }

InitMerge ==
    /\ config \in MergeBases
    /\ caches = <<>>
    /\ reqs = <<>>
    /\ puts = {}
    /\ trims = {}
    /\ prefetches = {}
    /\ database = FALSE
    /\ dbOpening = 0
    /\ idb = {}
    /\ getAlls = {}
    /\ replays = {}
    /\ now = 0
    /\ broadcasts = {}
    /\ posted = {}
    /\ nMsg = 0
    /\ thrown = {}
    /\ activation = Activated

NextMerge == \E newConfig \in MergeOverrides : OneAtATime /\ SetConfig(newConfig)

SpecMerge == InitMerge /\ [][NextMerge]_vars

\* a plain mapping object
IsMapping(value) == value.t = "object"

\* merge(base, override) as C19 states it
RECURSIVE ClaimedMerge(_, _)
ClaimedMerge(base, override) ==
    Obj([key \in (DOMAIN base.o) \cup (DOMAIN override.o) |->
        IF key \notin DOMAIN override.o THEN base.o[key]
        ELSE IF IsMapping(override.o[key]) /\ key \in DOMAIN base.o /\ IsMapping(base.o[key])
        THEN ClaimedMerge(base.o[key], override.o[key])
        ELSE IF IsMapping(override.o[key]) /\ key \notin DOMAIN base.o
        THEN ClaimedMerge(EmptyObj, override.o[key])
        ELSE override.o[key]])

\* the setConfig message handled in this step
Handled(b) == b \in broadcasts' /\ b \notin broadcasts

\* C19 as stated: the configuration after a setConfig is the merge of the
\* configuration before it with the override, mappings merged recursively
\* and everything else replaced by the value of the override
C19_MergeAsStated ==
    [][\A b \in broadcasts' : Handled(b) => config' = ClaimedMerge(config, b.config)]_vars

\* C20: once a setConfig has been handled, handling the same config again
\* would leave the effective configuration as it is.
C20_MergeIdempotent ==
    [][\A b \in broadcasts' : Handled(b) =>
          /\ config' = mergeDeep(config, b.config)
          /\ mergeDeep(config', b.config) = config']_vars

\* a setConfig has merged a mapping with an array into a configuration that
\* had another page and other saveDataItems, and has changed it
C20_Witness ==
    \E b \in broadcasts :
        /\ b.config = Obj([offline |-> Obj([page |-> Str("/offline")]),
                           saveDataItems |-> Arr(<<"collect">>)])
        /\ Get(Get(config, "offline"), "page") = Str("/offline")
        /\ Get(Get(config, "offline"), "image") = Str("<svg offline>")
        /\ Get(config, "saveDataItems") = Arr(<<"collect">>)

(***************************************************************************)
(* The prefetch command after a setConfig: the page configures the worker  *)
(* and then asks for the links of the page.  The steps left out (the trim, *)
(* the opening of the object store, the broadcast) read and write neither  *)
(* the prefetches nor the cache writes.                                    *)
(***************************************************************************)
PrefetchOverrides ==
    { Obj([cache |-> Obj([enabled |-> Bool(FALSE)])]),
      Obj([prefetch |-> Obj([enabled |-> Bool(FALSE)])]),
      Obj([cache |-> Obj([noCacheItems |-> Arr(<<"/page">>),
                          noCachePatterns |-> Arr(<<Regex(TRUE, Tok("/img/a.png"), FALSE)>>)])]) }

NextPrefetch ==
    \/ \E newConfig \in PrefetchOverrides : SetConfig(newConfig)
    \/ \E urls \in PrefetchLists : Prefetch(urls)
    \/ \E p \in prefetches : \E r \in NetResponses(p.url) : PrefetchResolve(p, r)
    \/ \E p \in prefetches : PrefetchReject(p)
    \/ \E w \in puts : PutDone(w)

SpecPrefetch == InitMessage /\ [][NextPrefetch]_vars

\* a prefetch command is handled in this step
PrefetchCommand ==
    /\ nMsg' = nMsg + 1
    /\ broadcasts' = broadcasts /\ getAlls' = getAlls /\ thrown' = thrown

\* the fetches of a prefetch command for urls, one for every URL
FetchesOf(urls, id) == {[id |-> id, url |-> Url(SelfOrigin, urls[i])] : i \in DOMAIN urls}

\* the cache write that stores the response r of the prefetch p under content
StoreOf(p, r) ==
    [by |-> <<"prefetch", p.id>>, name |-> cacheName("content"), key |-> p.url, resp |-> r]

\* when the fetch of the prefetch p resolves with r, r is stored under content
PrefetchStores(p, r) == ENABLED (PrefetchResolve(p, r) /\ StoreOf(p, r) \in puts')

\* C21 as stated: every URL of a prefetch command is fetched and its
\* response is stored in the content namespace, whatever the configuration
C21_Original ==
    /\ [][PrefetchCommand =>
            \E urls \in PrefetchLists : prefetches' = prefetches \cup FetchesOf(urls, nMsg')]_vars
    /\ [](\A p \in prefetches : \A r \in NetResponses(p.url) : PrefetchStores(p, r))

\* C21: a prefetch command handled while prefetch.enabled is true fetches
\* every one of its URLs, with no eligibility or exclusion check, and one
\* handled while it is false fetches nothing; the response of a prefetch is
\* stored in the content namespace exactly when it is ok and cache.enabled is
\* true when it arrives.
C21_PrefetchUnlessDisabled ==
    /\ [][PrefetchCommand =>
            IF PrefetchEnabled(config)
            THEN \E urls \in PrefetchLists : prefetches' = prefetches \cup FetchesOf(urls, nMsg')
            ELSE prefetches' = prefetches]_vars
    /\ [](\A p \in prefetches : \A r \in NetResponses(p.url) :
            PrefetchStores(p, r) <=> (Ok(r) /\ CacheEnabled(config)))

\* /page is excluded from the cache flows by cache.noCacheItems, and the
\* response of its prefetch is in the content cache
C21_Witness ==
    /\ Get(CfgCache(config), "noCacheItems") = Arr(<<"/page">>)
    /\ \E i \in DOMAIN caches :
          /\ caches[i].name = cacheName("content")
          /\ \E j \in DOMAIN caches[i].entries :
                /\ caches[i].entries[j].key = PageUrl
                /\ caches[i].entries[j].resp \in NetResponses(PageUrl)
(***************************************************************************)
(* The visit of a prefetched link.                                         *)
(***************************************************************************)
\* a navigation: a GET that accepts text/html
Navigation(request) == request.method = "GET" /\ Includes(Tok(request.accept), <<"text/html">>)

\* the fetch event s is answered in this step
Answered(s) ==
    /\ s \in DOMAIN reqs' /\ reqs'[s].pc = "done"
    /\ s \in DOMAIN reqs => reqs[s].pc # "done"

\* C22: a navigation to a URL that the cache held when the request arrived
\* (the prefetch of the link had been stored) is answered with the response
\* the cache holds for it.
C22_VisitFromCache ==
    [][\A s \in DOMAIN reqs' :
          (Answered(s) /\ Navigation(reqs'[s].req) /\ reqs'[s].held # Undefined) =>
              reqs'[s].resp = CachesMatch(caches, reqs'[s].req.url)]_vars
(***************************************************************************)
(* The cache-first flow when the cache and the network both fail.          *)
(***************************************************************************)
\* the cache-first request s, which missed the cache, has its fetch rejected
\* in this step and is answered
TotalFailure(s) ==
    /\ reqs[s].flow = "CacheFirstFlow" /\ reqs[s].pc = "fetch"
    /\ reqs'[s].pc = "done" /\ "netFailed" \in reqs'[s].did

\* config.offline.image is configured
HasOfflineImage(cfg) ==
    Truthy(Get(cfg, "offline")) /\ Truthy(Get(Get(cfg, "offline"), "image"))

\* C23: a cache-first request that missed the cache and whose fetch fails is
\* answered with the offline image (an SVG response of config.offline.image)
\* when it is of the image class and offline.image is configured, and with
\* undefined in every other case.
C23_OfflineImageOrUndefined ==
    [][\A s \in DOMAIN reqs :
          TotalFailure(s) =>
              reqs'[s].resp =
                  IF ResourceType(reqs[s].req) = "image" /\ HasOfflineImage(config)
                  THEN Response(200, <<Get(Get(config, "offline"), "image").s>>, 0)
                  ELSE Undefined]_vars

\* with offline.image configured, an image request that found neither the
\* cache nor the network has been answered with the offline image
C23_Witness ==
    \E s \in DOMAIN reqs :
        /\ reqs[s].flow = "CacheFirstFlow" /\ reqs[s].pc = "done"
        /\ ResourceType(reqs[s].req) = "image"
        /\ "netFailed" \in reqs[s].did
        /\ HasOfflineImage(config)
        /\ reqs[s].resp = Response(200, <<"<svg offline>">>, 0)
(***************************************************************************)
(* The image pass (deferImages, changeImages, setImage) on its own: the    *)
(* network has answered the request of a page with a document that holds   *)
(* one or two <img> elements, written as the README writes them            *)
(* (name="value"), with the attributes in any order.                       *)
(***************************************************************************)
AttrNames == {"data-defer", "src", "width", "height"}

\* the attributes of an <img> element, in the order they are written: src,
\* and any of the others, each at most once
ImageAttrLists ==
    { a \in UNION { [1..n -> AttrNames] : n \in 1..4 } :
        /\ \A i, j \in DOMAIN a : a[i] = a[j] => i = j
        /\ \E i \in DOMAIN a : a[i] = "src" }

\* the text of an attribute
AttrText(name) ==
    CASE name = "data-defer" -> <<" ", "data-defer">>
      [] name = "src" -> <<" ", "src", "=", "\"", "a.png", "\"">>
      [] name = "width" -> <<" ", "width", "=", "\"", "10", "\"">>
      [] name = "height" -> <<" ", "height", "=", "\"", "20", "\"">>

\* the text of the attribute src once deferred with the placeholder
DeferredSrc(placeholder) ==
    <<" ", "src", "=", "\"">> \o placeholder
    \o <<"\"", " ", "data-defer", "-", "src", "=", "\"", "a.png", "\"">>

RECURSIVE ImageText(_, _)
\* the text of the attributes attrs; with deferred, src is the deferred one
ImageText(attrs, deferred) ==
    IF attrs = <<>> THEN <<>>
    ELSE (IF deferred /\ Head(attrs) = "src"
          THEN DeferredSrc(newBase64Image("10", "20", ImageColor(DefaultConfig)))
          ELSE AttrText(Head(attrs)))
         \o ImageText(Tail(attrs), deferred)

\* the <img> element with the attributes attrs
ImageElement(attrs, deferred) == <<"<img">> \o ImageText(attrs, deferred) \o <<">">>

\* the documents: one element of every shape, or two elements
ImagePages ==
    LET few == { <<"src", "data-defer", "width", "height">>, <<"width", "src", "height">>,
                 <<"data-defer", "height", "src">> }
    IN { <<a>> : a \in ImageAttrLists } \cup { <<a, b>> : a \in few, b \in few }

RECURSIVE PageText(_, _)
\* the body of the document; with deferred, as the image pass is to leave it
PageText(page, deferred) ==
    IF page = <<>> THEN <<>>
    ELSE LET attrs == Head(page)
             has(name) == \E i \in DOMAIN attrs : attrs[i] = name
         IN <<"<p>">> \o ImageElement(attrs, deferred /\ has("data-defer")
                                                /\ has("width") /\ has("height"))
            \o <<"</p>">> \o PageText(Tail(page), deferred)

PageRequest == Req("GET", PageUrl, "text/html,*/*", FALSE)

InitImages ==
    /\ config = DefaultConfig
    /\ caches = <<>>
    /\ \E page \in ImagePages :
          LET r == Response(200, PageText(page, FALSE), 200)
          IN reqs = <<[onFetch(PageRequest, DefaultConfig) EXCEPT
                         !.pc = "deferImages", !.resp = r, !.raw = r]>>
    /\ puts = {}
    /\ trims = {}
    /\ prefetches = {}
    /\ database = FALSE
    /\ dbOpening = 0
    /\ idb = {}
    /\ getAlls = {}
    /\ replays = {}
    /\ now = 0
    /\ broadcasts = {}
    /\ posted = {}
    /\ nMsg = 0
    /\ thrown = {}
    /\ activation = Activated

NextImages ==
    \/ \E s \in Slots : ContentDeferImages(s)
    \/ \E s \in Slots : ContentDeferYoutube(s)
    \/ \E w \in puts : PutDone(w)

SpecImages == InitImages /\ [][NextImages]_vars

\* the image pass runs on the response of the request s in this step
ImagePass(s) == reqs[s].pc = "deferImages" /\ reqs'[s].pc = "deferYoutube"

\* C24: the image pass turns an <img> element that has data-defer, a width
\* and a height into the same element with the placeholder as its src and
\* the original src as its data-defer-src, wherever src stands among the
\* attributes, and leaves every other element, and the rest of the document,
\* as it is.
C24_ImagePass ==
    [][\A s \in DOMAIN reqs :
          ImagePass(s) =>
              \A page \in ImagePages :
                  reqs[s].raw.body = PageText(page, FALSE) =>
                      reqs'[s].resp.body = PageText(page, TRUE)]_vars

\* an element with src written first, before data-defer, the width and the
\* height, has been deferred, and an element without the marker has not
C24_Witness ==
    \E s \in DOMAIN reqs :
        /\ reqs[s].pc = "deferYoutube"
        /\ reqs[s].raw.body =
              PageText(<< <<"src", "data-defer", "width", "height">>,
                          <<"width", "src", "height">> >>, FALSE)
        /\ Includes(reqs[s].resp.body,
                    <<"data-defer", "-", "src", "=", "\"", "a.png", "\"", " ", "data-defer",
                      " ", "width">>)
        /\ Includes(reqs[s].resp.body, ImageElement(<<"width", "src", "height">>, FALSE))
(***************************************************************************)
(* Reads of the cache and the eviction order.                              *)
(***************************************************************************)
\* the request s is answered in this step with the entry the cache holds for
\* it: a cache-first hit, or the fallback of the content flow
ServedFromCache(s) ==
    /\ reqs[s].pc \in {"match", "fallbackMatch"}
    /\ reqs'[s].pc = "done"
    /\ reqs'[s].resp # Undefined
    /\ reqs'[s].resp = CachesMatch(caches, reqs[s].req.url)

\* C25: serving an entry from the cache writes nothing: no cache write is
\* dispatched and the caches, with the order of their entries, stay as they are.
C25_ServingDoesNotWrite ==
    [][\A s \in DOMAIN reqs :
          ServedFromCache(s) => (puts' = puts /\ caches' = caches)]_vars
(***************************************************************************)
(* Trims that overlap: the page sends setConfig again while the trim of    *)
(* the setConfig before is running and the prefetch of prefetch.items is    *)
(* writing to the cache.  The steps left out (the opening of the object    *)
(* store, the broadcast) read and write neither the caches nor the trims.  *)
(***************************************************************************)
OverlapOverrides ==
    { Obj([cache |-> Obj([maxItems |-> Num(1)])]),
      Obj([cache |-> Obj([maxItems |-> Num(1)]),
           prefetch |-> Obj([items |-> Arr(<<"/page">>)])]) }

NextOverlap ==
    \/ \E newConfig \in OverlapOverrides : SetConfig(newConfig)
    \/ \E p \in prefetches : \E r \in NetResponses(p.url) : PrefetchResolve(p, r)
    \/ \E p \in prefetches : PrefetchReject(p)
    \/ \E w \in puts : PutDone(w)
    \/ \E t \in trims : TrimCacheKeys(t)
    \/ \E t \in trims : TrimKeys(t)
    \/ \E t \in trims : TrimDelete(t)

SpecOverlap == InitMessage /\ [][NextOverlap]_vars

\* the trim t deletes an entry in this step
TrimDeletes(t) ==
    /\ t \in trims /\ t.stage = "delete" /\ t \notin trims'
    /\ Len(EntriesIn(caches', t.name)) < Len(EntriesIn(caches, t.name))

\* C26: every deletion of a trim leaves at least cache.maxItems entries in
\* the cache it trims.
C26_NoOverEviction ==
    [][\A t \in trims :
          TrimDeletes(t) => Len(EntriesIn(caches', t.name)) >= MaxItems(config).n]_vars
(***************************************************************************)
(* Replays that overlap: the retry queue holds records of an earlier run,  *)
(* and the page sends setConfig and reconnected one after the other.  The  *)
(* steps left out (the trim, the prefetch, the broadcast) read and write   *)
(* neither the object store nor the replays.                               *)
(***************************************************************************)
ReplayOverrides ==
    { Obj([analytics |-> Obj([maxTime |-> Num(1)])]),
      Obj([defer |-> Obj([youtube |-> Obj([enabled |-> Bool(FALSE)])])]) }

NextReplay ==
    \/ \E newConfig \in ReplayOverrides : SetConfig(newConfig)
    \/ Reconnected
    \/ DbOpenSuccess
    \/ DbOpenError
    \/ \E g \in getAlls : RetryGetAll(g)
    \/ \E rp \in replays : \E status \in ReplayStatuses : ReplayResolve(rp, status)
    \/ \E rp \in replays : ReplayReject(rp)

SpecReplay == InitAnalytics /\ [][NextReplay]_vars

\* C27: no record of the retry queue has two replay requests outstanding at
\* the same time.
C27_NoDoubleReplay ==
    \A a, b \in InFlight(replays) : a.url = b.url => a = b
====
